---- MODULE Spec2Model ----
(***************************************************************************)
(* A model of the CLAP wrapper of nih-plug (src/wrapper/clap/plugin.rs)    *)
(* and of the note event type (src/midi.rs): the instance state, the       *)
(* parameter update protocol, the event dispatch of process and flush,     *)
(* activation, the parameter queries and the main-thread task queue.       *)
(*                                                                         *)
(* Numbers.  f64 and f32 values are modelled in fixed point: an integer k  *)
(* stands for k / One.  Every integer in range is an f64 value; the f32    *)
(* values are the multiples of F32Step, so that `as f32` and every f32     *)
(* operation round (to nearest, ties to even) as the code's do.            *)
(***************************************************************************)
EXTENDS Integers, Sequences, FiniteSets, TLC

\* ---------------------------------------------------------------- bounds
\* Largest number of events of one event list (process or flush).
MaxEvents == 2
\* Largest normalized value kept in the model, in f32 steps; an event whose
\* result would leave [0, MaxNormSteps * F32Step] is not offered.
MaxNormSteps == 4
\* Capacity of the task queue of the model (ArrayQueue::new(TASK_QUEUE_CAPACITY)).
TASK_QUEUE_CAPACITY == 2
\* Largest number of do_maybe_async calls of one run.
MaxSubmits == 3

\* ---------------------------------------------------------------- numbers
\* 1.0 in model units.
One == 8
\* Distance of two neighbouring f32 values in model units.
F32Step == 2
Half == One \div 2

Abs(x) == IF x < 0 THEN -x ELSE x

\* The multiple of `step` nearest to num / den (den > 0), ties to the even
\* multiple: IEEE round-to-nearest-even on the model's grid.
RoundDiv(num, den, step) ==
    LET d == den * step
        q == num \div d
        r == num % d
    IN  IF 2 * r < d THEN q * step
        ELSE IF 2 * r > d THEN (q + 1) * step
        ELSE IF q % 2 = 0 THEN q * step ELSE (q + 1) * step

\* `x as f32` for an f64 x.
AsF32(x) == RoundDiv(x, 1, F32Step)
\* a / (n as f32) in f32, n a step count.
F32Div(a, n) == RoundDiv(a, n, F32Step)
\* a + b in f32 (both on the grid: exact).
F32Add(a, b) == AsF32(a + b)
\* (a as f64) * (n as f64) for an f32 a and a step count n (exact).
F64Mul(a, n) == a * n

\* Option<T>: None is the empty tuple, Some(x) the 1-tuple.
None == <<>>
Some(x) == <<x>>
IsSome(o) == Len(o) > 0
UnwrapOr(o, d) == IF Len(o) > 0 THEN o[1] ELSE d

\* ---------------------------------------------------------------- plugin
\* The string IDs the plugin declares, in declaration order (param_ids()).
ParamIds == <<"gain", "mode">>
\* The parameters of the plugin (the targets of the ParamPtrs).
ParamPtrs == {"gain", "mode"}
\* ParamPtr::step_count(): None for a continuous parameter.
StepCount(param_ptr) == IF param_ptr = "mode" THEN Some(3) ELSE None
\* The normalized values the plugin's parameters start with.
InitialNormalized(param_ptr) == IF param_ptr = "mode" THEN 0 ELSE Half
\* P::DEFAULT_NUM_INPUTS / P::DEFAULT_NUM_OUTPUTS.
DEFAULT_NUM_INPUTS == 2
DEFAULT_NUM_OUTPUTS == 2

\* hash_param_id: a fixed function from string IDs to u32 values.
HashParamId(id) ==
    CASE id = "gain" -> 11
      [] id = "mode" -> 22
      [] id = "bypass" -> 99
      [] OTHER -> 77
BYPASS_PARAM_ID == "bypass"
BYPASS_PARAM_HASH == HashParamId(BYPASS_PARAM_ID)
\* A hash no parameter has.
UnknownHash == HashParamId("?")

CLAP_CORE_EVENT_SPACE_ID == "core"
CLAP_EVENT_PARAM_VALUE == "CLAP_EVENT_PARAM_VALUE"
CLAP_EVENT_PARAM_MOD == "CLAP_EVENT_PARAM_MOD"
CLAP_PROCESS_ERROR == "CLAP_PROCESS_ERROR"
CLAP_PROCESS_CONTINUE == "CLAP_PROCESS_CONTINUE"
CLAP_PROCESS_CONTINUE_IF_NOT_QUIET == "CLAP_PROCESS_CONTINUE_IF_NOT_QUIET"

\* ---------------------------------------------------------------- inputs
Threads == {"t_main", "t_audio"}
\* The thread the host's thread-check extension calls the main thread.
HostMainThread == "t_main"
SampleRates == {44100, 48000}
MaxFrames == {512}
\* The plain values and deltas the host sends: -0.5, 0, 0.375, 0.5, 1.
PlainValues == {-Half, 0, 3, Half, One}
EventHashes == {BYPASS_PARAM_HASH, HashParamId("gain"), HashParamId("mode"), UnknownHash}
ParamEvents ==
    [space_id : {CLAP_CORE_EVENT_SPACE_ID},
     type : {CLAP_EVENT_PARAM_VALUE, CLAP_EVENT_PARAM_MOD},
     param_id : EventHashes, value : PlainValues]
\* Events of another type or of another namespace.
OtherEvents ==
    { [space_id |-> CLAP_CORE_EVENT_SPACE_ID, type |-> "CLAP_EVENT_NOTE_ON",
       param_id |-> HashParamId("gain"), value |-> One],
      [space_id |-> "vendor", type |-> CLAP_EVENT_PARAM_VALUE,
       param_id |-> HashParamId("gain"), value |-> One],
      [space_id |-> "vendor", type |-> CLAP_EVENT_PARAM_MOD,
       param_id |-> BYPASS_PARAM_HASH, value |-> One] }
Events == ParamEvents \cup OtherEvents
ProcessStatuses == {"Error", "Normal", "Tail", "KeepAlive"}

\* The host's sample memory: one buffer of BufLen samples at every address a
\* channel pointer can hold.  Before a block the host has filled every buffer
\* with samples of its own (here: told apart by address and position).
Addrs == {100, 101, 200, 201, 300, 301}
BufLen == 2
FreshMem == [a \in Addrs |-> [k \in 1..BufLen |-> 10 * a + k]]

\* ---------------------------------------------------------------- note events
\* NoteEvent: a record with the variant and the variant's fields.  timing is
\* a u32, narrowed here to U32_BITS bits.
U32_BITS == 8
U32Modulus == 2 ^ U32_BITS
NoteVariants ==
    {"NoteOn", "NoteOff", "PolyPressure", "PolyVolume", "PolyPan", "PolyTuning",
     "PolyVibrato", "PolyExpression", "PolyBrightness", "MidiChannelPressure",
     "MidiPitchBend", "MidiCC"}
Timings == {0, 1, 40, 100}
Channels == {0, 16}
Notes == {60}
NoteValues == {4}
NoteEvents ==
    [variant : {"NoteOn", "NoteOff"}, timing : Timings, channel : Channels,
     note : Notes, velocity : NoteValues]
    \cup [variant : {"PolyPressure"}, timing : Timings, channel : Channels,
          note : Notes, pressure : NoteValues]
    \cup [variant : {"PolyVolume"}, timing : Timings, channel : Channels,
          note : Notes, gain : NoteValues]
    \cup [variant : {"PolyPan"}, timing : Timings, channel : Channels,
          note : Notes, pan : NoteValues]
    \cup [variant : {"PolyTuning"}, timing : Timings, channel : Channels,
          note : Notes, tuning : NoteValues]
    \cup [variant : {"PolyVibrato"}, timing : Timings, channel : Channels,
          note : Notes, vibrato : NoteValues]
    \cup [variant : {"PolyExpression"}, timing : Timings, channel : Channels,
          note : Notes, expression : NoteValues]
    \cup [variant : {"PolyBrightness"}, timing : Timings, channel : Channels,
          note : Notes, brightness : NoteValues]
    \cup [variant : {"MidiChannelPressure"}, timing : Timings, channel : Channels,
          pressure : NoteValues]
    \cup [variant : {"MidiPitchBend"}, timing : Timings, channel : Channels,
          value : NoteValues]
    \cup [variant : {"MidiCC"}, timing : Timings, channel : Channels,
          cc : Notes, value : NoteValues]
\* The event held before the host has sent one.
NoNoteEvent ==
    [variant |-> "NoteOn", timing |-> 0, channel |-> 0, note |-> 60, velocity |-> 4]

\* NoteEvent::timing
Timing(self) ==
    CASE self.variant = "NoteOn" -> self.timing
      [] self.variant = "NoteOff" -> self.timing
      [] self.variant = "PolyPressure" -> self.timing
      [] self.variant = "PolyVolume" -> self.timing
      [] self.variant = "PolyPan" -> self.timing
      [] self.variant = "PolyTuning" -> self.timing
      [] self.variant = "PolyVibrato" -> self.timing
      [] self.variant = "PolyExpression" -> self.timing
      [] self.variant = "PolyBrightness" -> self.timing
      [] self.variant = "MidiChannelPressure" -> self.timing
      [] self.variant = "MidiPitchBend" -> self.timing
      [] self.variant = "MidiCC" -> self.timing

\* `*timing -= samples` where the subtraction does not overflow, and the
\* value a build without overflow checks leaves where it does.
WrappingSub(a, b) == (a - b + U32Modulus) % U32Modulus

\* A shift that takes the offset from NoteOn and NoteOff events only.
SubtractTiming_NotesOnly(self, samples) ==
    IF self.variant \in {"NoteOn", "NoteOff"}
    THEN [self EXCEPT !.timing = WrappingSub(@, samples)]
    ELSE self

\* NoteEvent::subtract_timing
SubtractTiming(self, samples) ==
    CASE self.variant = "NoteOn" -> [self EXCEPT !.timing = WrappingSub(@, samples)]
      [] self.variant = "NoteOff" -> [self EXCEPT !.timing = WrappingSub(@, samples)]
      [] self.variant = "PolyPressure" -> [self EXCEPT !.timing = WrappingSub(@, samples)]
      [] self.variant = "PolyVolume" -> [self EXCEPT !.timing = WrappingSub(@, samples)]
      [] self.variant = "PolyPan" -> [self EXCEPT !.timing = WrappingSub(@, samples)]
      [] self.variant = "PolyTuning" -> [self EXCEPT !.timing = WrappingSub(@, samples)]
      [] self.variant = "PolyVibrato" -> [self EXCEPT !.timing = WrappingSub(@, samples)]
      [] self.variant = "PolyExpression" -> [self EXCEPT !.timing = WrappingSub(@, samples)]
      [] self.variant = "PolyBrightness" -> [self EXCEPT !.timing = WrappingSub(@, samples)]
      [] self.variant = "MidiChannelPressure" ->
             [self EXCEPT !.timing = WrappingSub(@, samples)]
      [] self.variant = "MidiPitchBend" -> [self EXCEPT !.timing = WrappingSub(@, samples)]
      [] self.variant = "MidiCC" -> [self EXCEPT !.timing = WrappingSub(@, samples)]

VARIABLES
    params,                 \* normalized value of every plugin parameter
    smoothers,              \* smoother of every plugin parameter
    bypass_state,
    current_buffer_config,
    output_slices,          \* the raw vector of output_buffer
    tasks,
    param_hashes,
    param_by_hash,
    thread_check,           \* whether the host has the thread-check extension
    main_thread_id,
    callbacks,              \* number of host.request_callback calls so far
    executed,               \* the tasks whose effect has been performed
    panicked,
    audio,                  \* the process call in progress
    mainc,                  \* the flush call in progress
    last,                   \* the host call or dispatch that completed last
    task_seq,               \* number of do_maybe_async calls so far
    queued,                 \* the ids of the tasks pushed onto the queue, in order
    hist,                   \* observations of a block in progress
    host_mem,               \* the host's sample memory, by address
    note_event              \* a NoteEvent of the plugin's note input

inst_vars == <<params, smoothers, bypass_state, current_buffer_config, output_slices>>
registry_vars == <<param_hashes, param_by_hash, thread_check, main_thread_id>>
task_vars == <<tasks, callbacks, executed, panicked, task_seq, queued>>
vars == <<params, smoothers, bypass_state, current_buffer_config, output_slices,
          tasks, param_hashes, param_by_hash, thread_check, main_thread_id,
          callbacks, executed, panicked, audio, mainc, last, task_seq, queued, hist,
          host_mem, note_event>>

Idle == [pc |-> "idle"]
Quiescent == audio.pc = "idle" /\ mainc.pc = "idle"

\* ---------------------------------------------------------------- construction
\* Wrapper::new for a plugin that declares the string IDs `ids` (in this
\* order): param_hashes in declaration order, and param_by_hash.
ParamHashesOf(ids) == [i \in 1..Len(ids) |-> HashParamId(ids[i])]
ParamByHashOf(ids) ==
    [h \in {HashParamId(ids[i]) : i \in 1..Len(ids)} |->
        CHOOSE id \in {ids[i] : i \in 1..Len(ids)} : HashParamId(id) = h]

\* Wrapper::new: the registry in declaration order.
NewParamHashes == ParamHashesOf(ParamIds)
NewParamByHash == ParamByHashOf(ParamIds)

\* The instance Wrapper::new returns for a plugin that declares `ids`,
\* constructed on thread `creator` for a host that has the thread-check
\* extension or not.
NewDeclared(ids, host_thread_check, creator) ==
    /\ params = [p \in {ids[i] : i \in 1..Len(ids)} |-> InitialNormalized(p)]
    /\ smoothers = [p \in {ids[i] : i \in 1..Len(ids)} |-> None]
    /\ bypass_state = FALSE
    /\ current_buffer_config = None
    /\ output_slices = <<>>
    /\ tasks = <<>>
    /\ param_hashes = ParamHashesOf(ids)
    /\ param_by_hash = ParamByHashOf(ids)
    /\ thread_check = host_thread_check
    /\ main_thread_id = creator
    /\ callbacks = 0
    /\ executed = <<>>
    /\ panicked = FALSE
    /\ audio = Idle
    /\ mainc = Idle
    /\ last = [op |-> "new"]
    /\ task_seq = 0
    /\ queued = <<>>
    /\ hist = <<>>
    /\ host_mem = FreshMem
    /\ note_event = NoNoteEvent

\* The instance of the plugin that declares ParamIds.
New(host_thread_check, creator) == NewDeclared(ParamIds, host_thread_check, creator)

Init == New(TRUE, HostMainThread)

\* ---------------------------------------------------------------- parameters
\* ParamPtr::normalized_value / set_normalized_value / update_smoother: the
\* parameter stores the normalized value it is given; its smoother is seeded
\* with the value the parameter has at that moment, either at once (reset)
\* or as the target of a ramp.
NormalizedValue(ps, param_ptr) == ps[param_ptr]
SetNormalizedValue(ps, param_ptr, normalized) == [ps EXCEPT ![param_ptr] = normalized]
UpdateSmoother(sm, ps, param_ptr, sample_rate, reset) ==
    [sm EXCEPT ![param_ptr] =
        Some([target |-> ps[param_ptr], reset |-> reset])]

PlainValueSet(v) == [kind |-> "PlainValueSet", v |-> v]
PlainValueMod(v) == [kind |-> "PlainValueMod", v |-> v]

BypassAfter_StrictThreshold(bypass, update) ==
    IF update.kind = "PlainValueSet"
    THEN update.v > Half
    ELSE IF update.v > 0 THEN TRUE
         ELSE IF update.v < 0 THEN FALSE
         ELSE bypass

\* update_plain_value_by_hash, the bypass branch: the new bypass state.
BypassAfter(bypass, update) ==
    IF update.kind = "PlainValueSet"
    THEN update.v >= Half
    ELSE IF update.v > 0 THEN TRUE
         ELSE IF update.v < 0 THEN FALSE
         ELSE bypass

NormalizedAfter_IgnoresStepCount(ps, param_ptr, update) ==
    IF update.kind = "PlainValueSet"
    THEN AsF32(update.v)
    ELSE F32Add(NormalizedValue(ps, param_ptr), AsF32(update.v))

\* update_plain_value_by_hash, the parameter branch: the new normalized value.
NormalizedAfter(ps, param_ptr, update) ==
    IF update.kind = "PlainValueSet"
    THEN F32Div(AsF32(update.v), UnwrapOr(StepCount(param_ptr), 1))
    ELSE F32Add(NormalizedValue(ps, param_ptr),
                F32Div(AsF32(update.v), UnwrapOr(StepCount(param_ptr), 1)))

\* An update that never touches the smoother.
SmoothersAfter_Never(sm, ps, param_ptr, sample_rate) == sm

\* update_plain_value_by_hash, the parameter branch: the smoothers afterwards.
SmoothersAfter(sm, ps, param_ptr, sample_rate) ==
    IF IsSome(sample_rate)
    THEN UpdateSmoother(sm, ps, param_ptr, sample_rate[1], FALSE)
    ELSE sm

\* update_plain_value_by_hash on the state st = [params, smoothers,
\* bypass_state]: the return value and the state afterwards.
UpdatePlainValueByHash(st, hash, update, sample_rate) ==
    IF hash = BYPASS_PARAM_HASH
    THEN [ret |-> TRUE,
          params |-> st.params,
          smoothers |-> st.smoothers,
          bypass_state |-> BypassAfter(st.bypass_state, update)]
    ELSE IF hash \in DOMAIN param_by_hash
    THEN LET param_ptr == param_by_hash[hash]
             ps == SetNormalizedValue(st.params, param_ptr,
                                      NormalizedAfter(st.params, param_ptr, update))
         IN  [ret |-> TRUE,
              params |-> ps,
              smoothers |-> SmoothersAfter(st.smoothers, ps, param_ptr, sample_rate),
              bypass_state |-> st.bypass_state]
    ELSE [ret |-> FALSE,
          params |-> st.params,
          smoothers |-> st.smoothers,
          bypass_state |-> st.bypass_state]

\* self.current_buffer_config.load().map(|c| c.sample_rate)
CurrentSampleRate(config) ==
    IF IsSome(config) THEN Some(config[1].sample_rate) ELSE None

HandleEvent_IgnoresSpace(st, config, event) ==
    IF event.type = CLAP_EVENT_PARAM_VALUE
    THEN [handled |-> TRUE] @@
         UpdatePlainValueByHash(st, event.param_id, PlainValueSet(event.value),
                                CurrentSampleRate(config))
    ELSE IF event.type = CLAP_EVENT_PARAM_MOD
    THEN [handled |-> TRUE] @@
         UpdatePlainValueByHash(st, event.param_id, PlainValueMod(event.value),
                                CurrentSampleRate(config))
    ELSE [handled |-> FALSE, ret |-> FALSE, params |-> st.params,
          smoothers |-> st.smoothers, bypass_state |-> st.bypass_state]

\* handle_event: `handled` tells whether the event reached
\* update_plain_value_by_hash, `ret` what that call returned.
HandleEvent(st, config, event) ==
    IF event.space_id = CLAP_CORE_EVENT_SPACE_ID /\ event.type = CLAP_EVENT_PARAM_VALUE
    THEN [handled |-> TRUE] @@
         UpdatePlainValueByHash(st, event.param_id, PlainValueSet(event.value),
                                CurrentSampleRate(config))
    ELSE IF event.space_id = CLAP_CORE_EVENT_SPACE_ID /\ event.type = CLAP_EVENT_PARAM_MOD
    THEN [handled |-> TRUE] @@
         UpdatePlainValueByHash(st, event.param_id, PlainValueMod(event.value),
                                CurrentSampleRate(config))
    ELSE [handled |-> FALSE, ret |-> FALSE, params |-> st.params,
          smoothers |-> st.smoothers, bypass_state |-> st.bypass_state]

ParamState == [params |-> params, smoothers |-> smoothers, bypass_state |-> bypass_state]
NormMax == MaxNormSteps * F32Step
InRange(ps) == \A p \in DOMAIN ps : 0 <= ps[p] /\ ps[p] <= NormMax

\* One iteration of the event loop of process or flush, with the parameter
\* state kept inside the model's range.
Dispatch(event) ==
    LET r == HandleEvent(ParamState, current_buffer_config, event)
    IN  /\ InRange(r.params)
        /\ params' = r.params
        /\ smoothers' = r.smoothers
        /\ bypass_state' = r.bypass_state
        /\ last' = [op |-> "handle_event", handled |-> r.handled, ret |-> r.ret]

\* ---------------------------------------------------------------- task queue
\* A check that never asks the host.
IsMainThread_CreatorOnly(t) == t = main_thread_id

\* is_main_thread: the host's thread check if it has one, else the thread
\* that constructed the instance.
IsMainThread(t) ==
    IF thread_check THEN t = HostMainThread ELSE t = main_thread_id

\* MainThreadExecutor::execute: `todo!()`, which panics before any effect of
\* the task is performed.
Execute(ts, task) == [ts EXCEPT !.panicked = TRUE]

PushOk_Unbounded(queue) == TRUE

\* ArrayQueue::push: fails when the queue is full.
PushOk(queue) == Len(queue) < TASK_QUEUE_CAPACITY

\* do_maybe_async called by thread t on the task state ts = [tasks,
\* callbacks, executed, panicked]: the task state afterwards and the return
\* value (meaningless when the call panicked).
DoMaybeAsync(ts, t, task) ==
    IF IsMainThread(t)
    THEN [ret |-> TRUE] @@ Execute(ts, task)
    ELSE LET success == PushOk(ts.tasks)
         IN  [ret |-> success,
              tasks |-> IF success THEN Append(ts.tasks, task) ELSE ts.tasks,
              callbacks |-> IF success THEN ts.callbacks + 1 ELSE ts.callbacks,
              executed |-> ts.executed,
              panicked |-> ts.panicked]

\* on_main_thread: pop and execute until the queue is empty (or a panic).
RECURSIVE Drain(_)
Drain(ts) ==
    IF ts.panicked \/ ts.tasks = <<>>
    THEN ts
    ELSE Drain(Execute([ts EXCEPT !.tasks = Tail(ts.tasks)], Head(ts.tasks)))

TaskState == [tasks |-> tasks, callbacks |-> callbacks, executed |-> executed,
              panicked |-> panicked]
NewTask == [kind |-> "LatencyChanged", id |-> task_seq + 1]

SetTaskState(ts) ==
    /\ tasks' = ts.tasks
    /\ callbacks' = ts.callbacks
    /\ executed' = ts.executed
    /\ panicked' = ts.panicked
    /\ queued' = IF Len(ts.tasks) > Len(tasks)
                 THEN Append(queued, ts.tasks[Len(ts.tasks)].id)
                 ELSE queued

\* A thread of the plugin (its GUI or a background thread) submits a task.
SubmitTask(t) ==
    /\ ~panicked
    /\ task_seq < MaxSubmits
    /\ LET r == DoMaybeAsync(TaskState, t, NewTask)
       IN  /\ SetTaskState(r)
           /\ last' = [op |-> "do_maybe_async", thread |-> t, task |-> NewTask,
                       main |-> IsMainThread(t), ret |-> r.ret]
    /\ task_seq' = task_seq + 1
    /\ UNCHANGED <<inst_vars, registry_vars, note_event, host_mem, audio, mainc>>

\* The host calls on_main_thread.
OnMainThread ==
    /\ ~panicked
    /\ SetTaskState(Drain(TaskState))
    /\ last' = [op |-> "on_main_thread", popped |-> Len(tasks) - Len(Drain(TaskState).tasks)]
    /\ UNCHANGED <<inst_vars, registry_vars, note_event, host_mem, audio, mainc, task_seq>>

\* ---------------------------------------------------------------- lifecycle
current_bus_config ==
    [num_input_channels |-> DEFAULT_NUM_INPUTS, num_output_channels |-> DEFAULT_NUM_OUTPUTS]

\* The empty slice `&mut []` refers to no host memory.
NoHostMem == 0
EmptySlice == [ptr |-> NoHostMem, len |-> 0]

\* Vec::resize_with(n, || &mut []): truncates, or appends empty slices; the
\* slices that stay are kept as they are.
ResizeWith(slices, n) ==
    [i \in 1..n |-> IF i <= Len(slices) THEN slices[i] ELSE EmptySlice]

\* An activation that leaves the smoothers as they are.
SmoothersAfterReset_Skipped(sm, ps, sample_rate) == sm

\* activate: the smoothers after the reset loop over param_by_hash.values().
SmoothersAfterReset(sm, ps, sample_rate) ==
    [p \in DOMAIN sm |->
        IF \E h \in DOMAIN param_by_hash : param_by_hash[h] = p
        THEN Some([target |-> ps[p], reset |-> TRUE])
        ELSE sm[p]]

BufferConfigAfterActivate_Always(config, buffer_config, initialized) ==
    Some(buffer_config)

\* activate: the stored buffer configuration afterwards.
BufferConfigAfterActivate(config, buffer_config, initialized) ==
    IF initialized THEN Some(buffer_config) ELSE config

\* activate: the output slices afterwards.
OutputSlicesAfterActivate(slices, initialized) ==
    IF initialized
    THEN ResizeWith(slices, current_bus_config.num_output_channels)
    ELSE slices

\* activate(sample_rate, _, max_frames_count); `initialized` is what the
\* plugin's initialize returns for this configuration.
Activate(sample_rate, max_frames_count, initialized) ==
    /\ ~panicked
    /\ LET buffer_config == [sample_rate |-> sample_rate,
                             max_buffer_size |-> max_frames_count]
       IN  /\ smoothers' = SmoothersAfterReset(smoothers, params, buffer_config.sample_rate)
           /\ output_slices' = OutputSlicesAfterActivate(output_slices, initialized)
           /\ current_buffer_config' =
                  BufferConfigAfterActivate(current_buffer_config, buffer_config, initialized)
           /\ last' = [op |-> "activate", config |-> buffer_config, ret |-> initialized]
    /\ UNCHANGED <<params, bypass_state, registry_vars, note_event, host_mem, task_vars, audio, mainc>>

\* deactivate, start_processing and stop_processing do nothing.
Deactivate ==
    /\ ~panicked
    /\ last' = [op |-> "deactivate"]
    /\ UNCHANGED <<inst_vars, registry_vars, note_event, host_mem, task_vars, audio, mainc>>

\* ---------------------------------------------------------------- process
\* The host's blocks: number of frames, of output buses, of channels of the
\* output bus, and the address of the first output channel (channel i of a
\* block is at address base + i).
FrameCounts == {0, 2}
OutputCounts == {0, 1}
ChannelCounts == {1, 2}
OutBases == {100, 200}
\* What a read past the end of the host's channel-pointer array may yield.
WildPtrs == {-1}

Repoint_FirstChannel(slices, frames_count, channel_count, base, wild) ==
    [i \in 1..Len(slices) |-> [ptr |-> base, len |-> frames_count]]

\* process, the loop over output_slices: slice i is pointed at the i-th
\* entry of the host's channel-pointer array, which has channel_count entries.
Repoint(slices, frames_count, channel_count, base, wild) ==
    [i \in 1..Len(slices) |->
        [ptr |-> IF i <= channel_count THEN base + (i - 1) ELSE wild,
         len |-> frames_count]]

StatusCode_ErrorContinues(status) ==
    CASE status = "Error" -> CLAP_PROCESS_CONTINUE
      [] status = "Normal" -> CLAP_PROCESS_CONTINUE_IF_NOT_QUIET
      [] status = "Tail" -> CLAP_PROCESS_CONTINUE
      [] status = "KeepAlive" -> CLAP_PROCESS_CONTINUE

\* process, the match on the plugin's ProcessStatus.
StatusCode(status) ==
    CASE status = "Error" -> CLAP_PROCESS_ERROR
      [] status = "Normal" -> CLAP_PROCESS_CONTINUE_IF_NOT_QUIET
      [] status = "Tail" -> CLAP_PROCESS_CONTINUE
      [] status = "KeepAlive" -> CLAP_PROCESS_CONTINUE

\* process with a null process pointer.
ProcessNull(t) ==
    /\ ~panicked
    /\ audio.pc = "idle"
    /\ last' = [op |-> "process", thread |-> t, null |-> TRUE, ret |-> CLAP_PROCESS_ERROR]
    /\ UNCHANGED <<inst_vars, registry_vars, note_event, host_mem, task_vars, audio, mainc>>

\* process is entered by thread t; in_events.size() is read.
ProcessBegin(t, in_events_null, num_events) ==
    /\ ~panicked
    /\ audio.pc = "idle"
    /\ audio' = [pc |-> "events", thread |-> t,
                 num_events |-> IF in_events_null THEN 0 ELSE num_events,
                 event_idx |-> 0]
    /\ last' = [op |-> "process_enter", thread |-> t]
    /\ UNCHANGED <<inst_vars, registry_vars, note_event, host_mem, task_vars, mainc>>

\* An event loop that also takes events after the buffers have been set up.
ProcessEvent_AfterBuffers(event) ==
    /\ ~panicked
    /\ audio.pc \in {"events", "plugin"}
    /\ audio.pc = "events" => audio.event_idx < audio.num_events
    /\ Dispatch(event)
    /\ audio' = [audio EXCEPT !.event_idx = @ + 1]
    /\ UNCHANGED <<current_buffer_config, output_slices, registry_vars, note_event, host_mem,
                   task_vars, mainc>>

\* process, one iteration of the event loop: in_events.get(event_idx) is
\* `event`.
ProcessEvent(event) ==
    /\ ~panicked
    /\ audio.pc = "events"
    /\ audio.event_idx < audio.num_events
    /\ Dispatch(event)
    /\ audio' = [audio EXCEPT !.event_idx = @ + 1]
    /\ UNCHANGED <<current_buffer_config, output_slices, registry_vars, note_event, host_mem, task_vars, mainc>>

EarlyReturn_WhenBypassed(audio_outputs_count, frames_count) ==
    bypass_state \/ audio_outputs_count = 0 \/ frames_count = 0

EarlyReturn_OnlyWithoutOutputs(audio_outputs_count, frames_count) ==
    audio_outputs_count = 0

\* process, the test for the early return after the event loop.
EarlyReturn(audio_outputs_count, frames_count) ==
    audio_outputs_count = 0 \/ frames_count = 0

Min(a, b) == IF a < b THEN a ELSE b

CopyChannel_Inverted(mem, input_channel_ptr, output_channel_ptr, n) ==
    IF input_channel_ptr = output_channel_ptr
    THEN [mem EXCEPT ![output_channel_ptr] =
             [k \in 1..BufLen |-> IF k <= n THEN mem[input_channel_ptr][k] ELSE @[k]]]
    ELSE mem

\* ptr::copy_nonoverlapping(input_channel_ptr, output_channel_ptr, n), done
\* when the two pointers differ.
CopyChannel(mem, input_channel_ptr, output_channel_ptr, n) ==
    IF input_channel_ptr # output_channel_ptr
    THEN [mem EXCEPT ![output_channel_ptr] =
             [k \in 1..BufLen |-> IF k <= n THEN mem[input_channel_ptr][k] ELSE @[k]]]
    ELSE mem

\* process, the copy loop over input_channel_idx in idx..min(inputs, outputs):
\* audio_inputs is [channel_count, data32], data32 the host's array of input
\* channel pointers; output channel c is at base + c.
RECURSIVE CopyFrom(_, _, _, _, _, _)
CopyFrom(mem, idx, audio_inputs, frames_count, num_output_channels, base) ==
    IF idx >= Min(audio_inputs.channel_count, num_output_channels)
    THEN mem
    ELSE CopyFrom(CopyChannel(mem, audio_inputs.data32[idx + 1], base + idx, frames_count),
                  idx + 1, audio_inputs, frames_count, num_output_channels, base)

\* process, the copy step: skipped when process.audio_inputs is null.
MemAfterCopy(mem, audio_inputs, frames_count, num_output_channels, base) ==
    IF IsSome(audio_inputs)
    THEN CopyFrom(mem, 0, audio_inputs[1], frames_count, num_output_channels, base)
    ELSE mem

\* process after the event loop: the early return of a block without frames
\* or outputs, else the re-pointing of the output slices and the copy of the
\* inputs.  audio_inputs is None for a null process.audio_inputs.
ProcessBuffers(audio_outputs_count, frames_count, channel_count, base, wild, audio_inputs) ==
    /\ ~panicked
    /\ audio.pc = "events"
    /\ audio.event_idx = audio.num_events
    /\ IF EarlyReturn(audio_outputs_count, frames_count)
       THEN /\ audio' = Idle
            /\ last' = [op |-> "process", thread |-> audio.thread, null |-> FALSE,
                        dispatched |-> audio.event_idx, plugin_called |-> FALSE,
                        ret |-> CLAP_PROCESS_CONTINUE]
            /\ UNCHANGED <<output_slices, host_mem>>
       ELSE /\ audio' = [pc |-> "plugin", thread |-> audio.thread,
                         num_events |-> audio.num_events, event_idx |-> audio.event_idx,
                         block |-> [frames_count |-> frames_count,
                                    channel_count |-> channel_count,
                                    base |-> base, audio_inputs |-> audio_inputs]]
            /\ output_slices' = Repoint(output_slices, frames_count, channel_count, base, wild)
            /\ host_mem' = MemAfterCopy(host_mem, audio_inputs, frames_count,
                                        channel_count, base)
            /\ last' = [op |-> "process_buffers", thread |-> audio.thread]
    /\ UNCHANGED <<params, smoothers, bypass_state, current_buffer_config,
                   registry_vars, note_event, task_vars, mainc>>

\* process, the plugin's processing step: it reports `status`, and when
\* `submit` it first submits a task through its context.  When process has
\* returned the host takes its buffers back and fills them for the next block.
ProcessPlugin(status, submit) ==
    /\ ~panicked
    /\ audio.pc = "plugin"
    /\ submit => task_seq < MaxSubmits
    /\ LET r == IF submit THEN DoMaybeAsync(TaskState, audio.thread, NewTask)
                ELSE [ret |-> FALSE] @@ TaskState
       IN  /\ SetTaskState(r)
           /\ IF r.panicked
              THEN /\ audio' = [audio EXCEPT !.pc = "panicked"]
                   /\ last' = [op |-> "process_panic", thread |-> audio.thread,
                               submitted |-> submit]
              ELSE /\ audio' = Idle
                   /\ last' = [op |-> "process", thread |-> audio.thread, null |-> FALSE,
                               dispatched |-> audio.event_idx, plugin_called |-> TRUE,
                               status |-> status, submitted |-> submit,
                               submit_ret |-> r.ret, ret |-> StatusCode(status)]
    /\ task_seq' = IF submit THEN task_seq + 1 ELSE task_seq
    /\ host_mem' = FreshMem
    /\ UNCHANGED <<inst_vars, registry_vars, note_event, mainc>>

\* ---------------------------------------------------------------- flush
\* ext_params_flush is entered; in_.size() is read.
FlushBegin(in_null, num_events) ==
    /\ ~panicked
    /\ mainc.pc = "idle"
    /\ mainc' = [pc |-> "flush", num_events |-> IF in_null THEN 0 ELSE num_events,
                 event_idx |-> 0]
    /\ last' = [op |-> "flush_enter"]
    /\ UNCHANGED <<inst_vars, registry_vars, note_event, host_mem, task_vars, audio>>

\* A flush loop that reads the event and drops it.
FlushEvent_SkipsEvent(event) ==
    /\ ~panicked
    /\ mainc.pc = "flush"
    /\ mainc.event_idx < mainc.num_events
    /\ last' = [op |-> "handle_event", handled |-> FALSE, ret |-> FALSE]
    /\ mainc' = [mainc EXCEPT !.event_idx = @ + 1]
    /\ UNCHANGED <<inst_vars, registry_vars, note_event, host_mem, task_vars, audio>>

\* ext_params_flush, one iteration of the event loop.
FlushEvent(event) ==
    /\ ~panicked
    /\ mainc.pc = "flush"
    /\ mainc.event_idx < mainc.num_events
    /\ Dispatch(event)
    /\ mainc' = [mainc EXCEPT !.event_idx = @ + 1]
    /\ UNCHANGED <<current_buffer_config, output_slices, registry_vars, note_event, host_mem, task_vars, audio>>

\* ext_params_flush returns.
FlushEnd ==
    /\ ~panicked
    /\ mainc.pc = "flush"
    /\ mainc.event_idx = mainc.num_events
    /\ mainc' = Idle
    /\ last' = [op |-> "flush", dispatched |-> mainc.event_idx]
    /\ UNCHANGED <<inst_vars, registry_vars, note_event, host_mem, task_vars, audio>>

\* ---------------------------------------------------------------- queries
\* param_defaults_normalized: the normalized values at construction.
param_defaults_normalized ==
    [h \in DOMAIN param_by_hash |-> InitialNormalized(param_by_hash[h])]

\* Texts are tuples.  ParamPtr::normalized_value_to_string and
\* string_to_normalized_value: the text of a parameter names the parameter
\* and the normalized value, and only such a text parses.
NormalizedValueToString(param_ptr, normalized) == <<param_ptr, normalized>>
StringToNormalizedValue(param_ptr, text) ==
    IF Len(text) = 2 /\ text[1] = param_ptr THEN Some(text[2]) ELSE None

ExtParamsCount_NoBypass == Len(param_hashes)

\* ext_params_count
ExtParamsCount == Len(param_hashes) + 1

\* ext_params_get_info: the return value and what is written to *param_info.
ExtParamsGetInfo(param_index, info_null) ==
    IF info_null \/ param_index < 0 \/ param_index > Len(param_hashes)
    THEN [ret |-> FALSE, out |-> None]
    ELSE IF param_index = Len(param_hashes)
    THEN [ret |-> TRUE,
          out |-> Some([id |-> BYPASS_PARAM_HASH, flags |-> {"STEPPED", "BYPASS"},
                        name |-> "Bypass", min_value |-> 0, max_value |-> One,
                        default_value |-> 0])]
    ELSE LET param_hash == param_hashes[param_index + 1]
             param_ptr == param_by_hash[param_hash]
             step_count == StepCount(param_ptr)
         IN  [ret |-> TRUE,
              out |-> Some([id |-> param_hash,
                            flags |-> IF IsSome(step_count) THEN {"STEPPED"} ELSE {},
                            name |-> param_ptr, min_value |-> 0,
                            max_value |-> UnwrapOr(step_count, 1) * One,
                            default_value |-> F64Mul(param_defaults_normalized[param_hash],
                                                     UnwrapOr(step_count, 1))])]

ExtParamsGetValue_NoNullCheck(st, param_id, value_null) ==
    IF param_id = BYPASS_PARAM_HASH
    THEN [ret |-> TRUE, out |-> Some(IF st.bypass_state THEN One ELSE 0)]
    ELSE IF param_id \in DOMAIN param_by_hash
    THEN [ret |-> TRUE,
          out |-> Some(F64Mul(NormalizedValue(st.params, param_by_hash[param_id]),
                              UnwrapOr(StepCount(param_by_hash[param_id]), 1)))]
    ELSE [ret |-> FALSE, out |-> None]

ExtParamsGetValue_NoStepCount(st, param_id, value_null) ==
    IF value_null
    THEN [ret |-> FALSE, out |-> None]
    ELSE IF param_id = BYPASS_PARAM_HASH
    THEN [ret |-> TRUE, out |-> Some(IF st.bypass_state THEN One ELSE 0)]
    ELSE IF param_id \in DOMAIN param_by_hash
    THEN [ret |-> TRUE, out |-> Some(NormalizedValue(st.params, param_by_hash[param_id]))]
    ELSE [ret |-> FALSE, out |-> None]

\* ext_params_get_value: the return value and what is written to *value.
ExtParamsGetValue(st, param_id, value_null) ==
    IF value_null
    THEN [ret |-> FALSE, out |-> None]
    ELSE IF param_id = BYPASS_PARAM_HASH
    THEN [ret |-> TRUE, out |-> Some(IF st.bypass_state THEN One ELSE 0)]
    ELSE IF param_id \in DOMAIN param_by_hash
    THEN LET param_ptr == param_by_hash[param_id]
         IN  [ret |-> TRUE,
              out |-> Some(F64Mul(NormalizedValue(st.params, param_ptr),
                                  UnwrapOr(StepCount(param_ptr), 1)))]
    ELSE [ret |-> FALSE, out |-> None]

\* ext_params_value_to_text: the return value and what is written to display
\* (a buffer large enough for the text).
ExtParamsValueToText(param_id, value, display_null) ==
    IF display_null
    THEN [ret |-> FALSE, out |-> None]
    ELSE IF param_id = BYPASS_PARAM_HASH
    THEN [ret |-> TRUE, out |-> Some(IF value > Half THEN <<"Bypassed">> ELSE <<"Not Bypassed">>)]
    ELSE IF param_id \in DOMAIN param_by_hash
    THEN LET param_ptr == param_by_hash[param_id]
         IN  [ret |-> TRUE,
              out |-> Some(NormalizedValueToString(param_ptr,
                               F32Div(AsF32(value), UnwrapOr(StepCount(param_ptr), 1))))]
    ELSE [ret |-> FALSE, out |-> None]

\* A conversion that takes every text but "Bypassed" as "Not Bypassed".
ExtParamsTextToValue_DefaultOff(param_id, display, display_null, value_null) ==
    IF display_null \/ value_null
    THEN [ret |-> FALSE, out |-> None]
    ELSE IF ~display.utf8
    THEN [ret |-> FALSE, out |-> None]
    ELSE IF param_id = BYPASS_PARAM_HASH
    THEN IF display.text = <<"Bypassed">> THEN [ret |-> TRUE, out |-> Some(One)]
         ELSE [ret |-> TRUE, out |-> Some(0)]
    ELSE [ret |-> FALSE, out |-> None]

\* ext_params_text_to_value: the return value and what is written to *value.
\* display is [utf8, text]: whether the C string is valid UTF-8, and its text.
ExtParamsTextToValue(param_id, display, display_null, value_null) ==
    IF display_null \/ value_null
    THEN [ret |-> FALSE, out |-> None]
    ELSE IF ~display.utf8
    THEN [ret |-> FALSE, out |-> None]
    ELSE IF param_id = BYPASS_PARAM_HASH
    THEN IF display.text = <<"Bypassed">> THEN [ret |-> TRUE, out |-> Some(One)]
         ELSE IF display.text = <<"Not Bypassed">> THEN [ret |-> TRUE, out |-> Some(0)]
         ELSE [ret |-> FALSE, out |-> None]
    ELSE IF param_id \in DOMAIN param_by_hash
    THEN LET param_ptr == param_by_hash[param_id]
             parsed == StringToNormalizedValue(param_ptr, display.text)
         IN  IF IsSome(parsed)
             THEN [ret |-> TRUE,
                   out |-> Some(F64Mul(parsed[1], UnwrapOr(StepCount(param_ptr), 1)))]
             ELSE [ret |-> FALSE, out |-> None]
    ELSE [ret |-> FALSE, out |-> None]

\* The texts the host asks to convert.
Displays ==
    [utf8 : {TRUE}, text : {<<"Bypassed">>, <<"Not Bypassed">>, <<"bypassed">>,
                            <<"gain", Half>>, <<"mode", F32Step>>}]
    \cup {[utf8 |-> FALSE, text |-> <<"Bypassed">>]}
QueryValues == {0, Half, One}

\* A query leaves the instance as it is and hands its result to the host.
Query(result) ==
    /\ ~panicked
    /\ last' = result
    /\ UNCHANGED <<inst_vars, registry_vars, note_event, host_mem, task_vars, audio, mainc>>

Count == Query([op |-> "count", ret |-> ExtParamsCount])
GetInfo(param_index, info_null) ==
    Query([op |-> "get_info", param_index |-> param_index, info_null |-> info_null]
          @@ ExtParamsGetInfo(param_index, info_null))
GetValue(param_id, value_null) ==
    Query([op |-> "get_value", value_null |-> value_null]
          @@ ExtParamsGetValue(ParamState, param_id, value_null))
ValueToText(param_id, value, display_null) ==
    Query([op |-> "value_to_text", display_null |-> display_null]
          @@ ExtParamsValueToText(param_id, value, display_null))
TextToValue(param_id, display, display_null, value_null) ==
    Query([op |-> "text_to_value", display_null |-> display_null, value_null |-> value_null]
          @@ ExtParamsTextToValue(param_id, display, display_null, value_null))

\* ---------------------------------------------------------------- the host, one call at a time
HostActivate ==
    \E sample_rate \in SampleRates, max_frames_count \in MaxFrames, initialized \in BOOLEAN :
        Activate(sample_rate, max_frames_count, initialized)
HostProcessBegin(t) ==
    \E in_events_null \in BOOLEAN, num_events \in 0..MaxEvents :
        ProcessBegin(t, in_events_null, num_events)
HostProcessEvent == \E event \in Events : ProcessEvent(event)
HostProcessBuffers ==
    \E audio_outputs_count \in OutputCounts, frames_count \in FrameCounts,
       channel_count \in ChannelCounts, base \in OutBases, wild \in WildPtrs :
        ProcessBuffers(audio_outputs_count, frames_count, channel_count, base, wild, None)
PluginProcess(submit) == \E status \in ProcessStatuses : ProcessPlugin(status, submit)
HostFlushBegin ==
    \E in_null \in BOOLEAN, num_events \in 0..MaxEvents : FlushBegin(in_null, num_events)
HostFlushEvent == \E event \in Events : FlushEvent(event)
HostSubmitTask == \E t \in Threads : SubmitTask(t)
HostGetInfo ==
    \E param_index \in -1..(Len(param_hashes) + 1), info_null \in BOOLEAN :
        GetInfo(param_index, info_null)
HostGetValue == \E param_id \in EventHashes, value_null \in BOOLEAN : GetValue(param_id, value_null)
HostValueToText ==
    \E param_id \in EventHashes, value \in QueryValues, display_null \in BOOLEAN :
        ValueToText(param_id, value, display_null)
HostTextToValue ==
    \E param_id \in EventHashes, display \in Displays,
       nulls \in {<<FALSE, FALSE>>, <<TRUE, FALSE>>, <<FALSE, TRUE>>} :
        TextToValue(param_id, display, nulls[1], nulls[2])

\* The host makes one call at a time; the plugin's processing step submits
\* no task.
Next ==
    \/ Quiescent /\ HostActivate /\ UNCHANGED hist
    \/ Quiescent /\ Deactivate /\ UNCHANGED hist
    \/ Quiescent /\ ProcessNull("t_audio") /\ UNCHANGED hist
    \/ Quiescent /\ HostProcessBegin("t_audio") /\ UNCHANGED hist
    \/ HostProcessEvent /\ UNCHANGED hist
    \/ HostProcessBuffers /\ UNCHANGED hist
    \/ PluginProcess(FALSE) /\ UNCHANGED hist
    \/ Quiescent /\ HostFlushBegin /\ UNCHANGED hist
    \/ HostFlushEvent /\ UNCHANGED hist
    \/ FlushEnd /\ UNCHANGED hist

Spec == Init /\ [][Next]_vars

\* ---------------------------------------------------------------- the parameter queries
\* The host's queries between activations and flushes, which bring the
\* instance into every parameter state; a query writes no instance state, so
\* the calls it is placed between do not matter to it.
NextQueries ==
    \/ Quiescent /\ HostActivate /\ UNCHANGED hist
    \/ Quiescent /\ ProcessNull("t_audio") /\ UNCHANGED hist
    \/ Quiescent /\ HostFlushBegin /\ UNCHANGED hist
    \/ HostFlushEvent /\ UNCHANGED hist
    \/ FlushEnd /\ UNCHANGED hist
    \/ Quiescent /\ Count /\ UNCHANGED hist
    \/ Quiescent /\ HostGetInfo /\ UNCHANGED hist
    \/ Quiescent /\ HostGetValue /\ UNCHANGED hist
    \/ Quiescent /\ HostValueToText /\ UNCHANGED hist
    \/ Quiescent /\ HostTextToValue /\ UNCHANGED hist

SpecQueries == Init /\ [][NextQueries]_vars

\* ---------------------------------------------------------------- the event lists
\* The events of process and flush on an instance that is or is not yet
\* activated; the host's buffers are the same in every block.
NextEvents ==
    \/ Quiescent /\ Activate(48000, 512, TRUE) /\ UNCHANGED hist
    \/ Quiescent /\ HostProcessBegin("t_audio") /\ UNCHANGED hist
    \/ HostProcessEvent /\ UNCHANGED hist
    \/ (\E audio_outputs_count \in OutputCounts :
            ProcessBuffers(audio_outputs_count, 2, DEFAULT_NUM_OUTPUTS, 100, -1, None))
       /\ UNCHANGED hist
    \/ PluginProcess(FALSE) /\ UNCHANGED hist
    \/ Quiescent /\ HostFlushBegin /\ UNCHANGED hist
    \/ HostFlushEvent /\ UNCHANGED hist
    \/ FlushEnd /\ UNCHANGED hist

SpecEvents == Init /\ [][NextEvents]_vars

\* ---------------------------------------------------------------- the task queue and its threads
\* Any host and any constructing thread; process runs on any thread and its
\* processing step may submit a task; other threads submit tasks while a
\* process call is in progress.
InitTasks == \E host_thread_check \in BOOLEAN, creator \in Threads : New(host_thread_check, creator)

NextTasks ==
    \/ Quiescent /\ HostActivate /\ UNCHANGED hist
    \/ \E t \in Threads : audio.pc = "idle" /\ ProcessBegin(t, TRUE, 0) /\ UNCHANGED hist
    \/ HostProcessBuffers /\ UNCHANGED hist
    \/ \E submit \in BOOLEAN : PluginProcess(submit) /\ UNCHANGED hist
    \/ HostSubmitTask /\ UNCHANGED hist
    \/ audio.pc = "idle" /\ OnMainThread /\ UNCHANGED hist

SpecTasks == InitTasks /\ [][NextTasks]_vars

\* ---------------------------------------------------------------- a query during a block
\* The plain value get_value reports for param_id in the parameter state st.
PlainOf(st, param_id) ==
    IF param_id = BYPASS_PARAM_HASH
    THEN IF st.bypass_state THEN One ELSE 0
    ELSE st.params[param_by_hash[param_id]] * UnwrapOr(StepCount(param_by_hash[param_id]), 1)

KnownHashes == {BYPASS_PARAM_HASH} \cup DOMAIN param_by_hash

\* The audio thread is in process while the main thread calls get_value.
\* hist keeps, for the block in progress, the parameter state before the
\* block and after every dispatch, and the latest query made during it.
ConcProcessBegin ==
    /\ HostProcessBegin("t_audio")
    /\ hist' = [trace |-> <<[params |-> params, bypass_state |-> bypass_state]>>,
                obs |-> None]
ConcProcessEvent ==
    /\ HostProcessEvent
    /\ hist' = [hist EXCEPT !.trace =
                   Append(@, [params |-> params', bypass_state |-> bypass_state'])]
ConcProcessBuffers ==
    /\ \E audio_outputs_count \in OutputCounts :
           ProcessBuffers(audio_outputs_count, 2, DEFAULT_NUM_OUTPUTS, 100, -1, None)
    /\ hist' = <<>>
ConcGetValue ==
    \E param_id \in KnownHashes :
        /\ GetValue(param_id, FALSE)
        /\ hist' = IF audio.pc = "events"
                   THEN [hist EXCEPT !.obs = Some([param_id |-> param_id,
                                                   value |-> last'.out[1],
                                                   event_idx |-> audio.event_idx])]
                   ELSE hist

NextConc ==
    \/ Quiescent /\ Activate(48000, 512, TRUE) /\ UNCHANGED hist
    \/ ConcProcessBegin
    \/ ConcProcessEvent
    \/ ConcProcessBuffers
    \/ ProcessPlugin("Normal", FALSE) /\ UNCHANGED hist
    \/ ConcGetValue

SpecConc == Init /\ [][NextConc]_vars

\* ---------------------------------------------------------------- the declared parameter set
\* The parameter sets a plugin may declare; the last two declare the ID the
\* wrapper reserves for its own bypass parameter.
DeclaredIds == {<<"gain", "mode">>, <<"gain">>, <<"gain", "bypass">>, <<"bypass", "mode">>}

\* No instance: construction ended in a panic.
ConstructionFailed ==
    /\ params = <<>>
    /\ smoothers = <<>>
    /\ bypass_state = FALSE
    /\ current_buffer_config = None
    /\ output_slices = <<>>
    /\ tasks = <<>>
    /\ param_hashes = <<>>
    /\ param_by_hash = <<>>
    /\ thread_check = TRUE
    /\ main_thread_id = HostMainThread
    /\ callbacks = 0
    /\ executed = <<>>
    /\ panicked = TRUE
    /\ audio = Idle
    /\ mainc = Idle
    /\ last = [op |-> "new_panic"]
    /\ task_seq = 0
    /\ queued = <<>>
    /\ hist = <<>>
    /\ host_mem = FreshMem
    /\ note_event = NoNoteEvent

\* Wrapper::new with its nih_debug_assert!(!param_map.contains_key("bypass")).
\* The assertion is a debug assertion: a release build does not stop at it,
\* and whether a debug build stops (`stops`) or only logs is left open.  The
\* code after it registers every declared ID, the reserved one included.
NewChecked(ids, stops) ==
    IF stops /\ \E i \in 1..Len(ids) : ids[i] = BYPASS_PARAM_ID
    THEN ConstructionFailed
    ELSE NewDeclared(ids, TRUE, HostMainThread)

InitDeclared == \E ids \in DeclaredIds, stops \in BOOLEAN : NewChecked(ids, stops)

NextDeclared ==
    \/ Quiescent /\ Activate(48000, 512, TRUE) /\ UNCHANGED hist
    \/ Quiescent /\ FlushBegin(FALSE, 1) /\ UNCHANGED hist
    \/ HostFlushEvent /\ UNCHANGED hist
    \/ FlushEnd /\ UNCHANGED hist
    \/ Quiescent /\ Count /\ UNCHANGED hist
    \/ Quiescent /\ HostGetInfo /\ UNCHANGED hist
    \/ Quiescent /\ HostGetValue /\ UNCHANGED hist

SpecDeclared == InitDeclared /\ [][NextDeclared]_vars

\* ---------------------------------------------------------------- the host's buffers
\* The arrays of input channel pointers a host may hand in with an output bus
\* at `base`: in place, in buffers of their own, with the two channels
\* swapped, and in place for the first channel only.
InputPtrs(base) == {<<base, base + 1>>, <<300, 301>>, <<base + 1, base>>, <<base, 301>>}
\* process.audio_inputs: null, or a bus of one or two channels.
HostInputs(base) ==
    {None} \cup {Some([channel_count |-> n, data32 |-> ptrs]) :
                    n \in ChannelCounts, ptrs \in InputPtrs(base)}
\* The events of the blocks: bypass on and bypass off.
BlockEvents ==
    {[space_id |-> CLAP_CORE_EVENT_SPACE_ID, type |-> CLAP_EVENT_PARAM_VALUE,
      param_id |-> BYPASS_PARAM_HASH, value |-> v] : v \in {0, One}}

HostBlock ==
    \E audio_outputs_count \in OutputCounts, frames_count \in 0..BufLen,
       channel_count \in ChannelCounts, base \in OutBases, wild \in WildPtrs :
        \E audio_inputs \in HostInputs(base) :
            ProcessBuffers(audio_outputs_count, frames_count, channel_count, base, wild,
                           audio_inputs)

NextBuffers ==
    \/ Quiescent /\ (\E initialized \in BOOLEAN : Activate(48000, 512, initialized))
       /\ UNCHANGED hist
    \/ Quiescent /\ HostProcessBegin("t_audio") /\ UNCHANGED hist
    \/ (\E event \in BlockEvents : ProcessEvent(event)) /\ UNCHANGED hist
    \/ HostBlock /\ UNCHANGED hist
    \/ PluginProcess(FALSE) /\ UNCHANGED hist

SpecBuffers == Init /\ [][NextBuffers]_vars

\* ---------------------------------------------------------------- one list, two paths
\* The host hands a list of events either to process (as the in-block events
\* of a block without audio) or to ext_params_flush.  hist keeps the path, the
\* parameter state when the call was entered and the events read so far.
ListEvents ==
    { [space_id |-> CLAP_CORE_EVENT_SPACE_ID, type |-> CLAP_EVENT_PARAM_VALUE,
       param_id |-> HashParamId("gain"), value |-> 3],
      [space_id |-> CLAP_CORE_EVENT_SPACE_ID, type |-> CLAP_EVENT_PARAM_MOD,
       param_id |-> HashParamId("gain"), value |-> Half],
      [space_id |-> CLAP_CORE_EVENT_SPACE_ID, type |-> CLAP_EVENT_PARAM_VALUE,
       param_id |-> HashParamId("mode"), value |-> One],
      [space_id |-> CLAP_CORE_EVENT_SPACE_ID, type |-> CLAP_EVENT_PARAM_VALUE,
       param_id |-> BYPASS_PARAM_HASH, value |-> One],
      [space_id |-> CLAP_CORE_EVENT_SPACE_ID, type |-> CLAP_EVENT_PARAM_MOD,
       param_id |-> BYPASS_PARAM_HASH, value |-> -Half],
      [space_id |-> "vendor", type |-> CLAP_EVENT_PARAM_VALUE,
       param_id |-> HashParamId("gain"), value |-> One] }
ListBegin(path) == [path |-> path, start |-> ParamState, events |-> <<>>]
ListRead(event) == [hist EXCEPT !.events = Append(@, event)]

NextList ==
    \/ Quiescent /\ HostActivate /\ hist' = <<>>
    \/ Quiescent /\ HostProcessBegin("t_audio") /\ hist' = ListBegin("process")
    \/ \E event \in ListEvents : ProcessEvent(event) /\ hist' = ListRead(event)
    \/ ProcessBuffers(0, 0, DEFAULT_NUM_OUTPUTS, 100, -1, None) /\ UNCHANGED hist
    \/ Quiescent /\ HostFlushBegin /\ hist' = ListBegin("flush")
    \/ \E event \in ListEvents : FlushEvent(event) /\ hist' = ListRead(event)
    \/ FlushEnd /\ UNCHANGED hist

SpecList == Init /\ [][NextList]_vars

\* ---------------------------------------------------------------- values set and read back
\* The host sets values by events and reads them back.  hist keeps the last
\* event that updated a value and the arguments of the last query.
ValueEvents ==
    [space_id : {CLAP_CORE_EVENT_SPACE_ID}, type : {CLAP_EVENT_PARAM_VALUE},
     param_id : EventHashes, value : {0, 3, Half, One}]
    \cup
    { [space_id |-> CLAP_CORE_EVENT_SPACE_ID, type |-> CLAP_EVENT_PARAM_MOD,
       param_id |-> HashParamId("gain"), value |-> Half],
      [space_id |-> CLAP_CORE_EVENT_SPACE_ID, type |-> CLAP_EVENT_PARAM_MOD,
       param_id |-> BYPASS_PARAM_HASH, value |-> -Half],
      [space_id |-> "vendor", type |-> CLAP_EVENT_PARAM_VALUE,
       param_id |-> HashParamId("mode"), value |-> One] }
NoValuesSeen == [update |-> None, query |-> None]
ValuesSeen == IF hist = <<>> THEN NoValuesSeen ELSE hist

NextValues ==
    \/ Quiescent /\ Activate(48000, 512, TRUE) /\ UNCHANGED hist
    \/ Quiescent /\ FlushBegin(FALSE, 1) /\ UNCHANGED hist
    \/ \E event \in ValueEvents :
           /\ FlushEvent(event)
           /\ hist' = [ValuesSeen EXCEPT !.update = IF last'.handled /\ last'.ret
                                              THEN Some(event) ELSE @]
    \/ FlushEnd /\ UNCHANGED hist
    \/ \E param_id \in EventHashes :
           /\ Quiescent
           /\ GetValue(param_id, FALSE)
           /\ hist' = [ValuesSeen EXCEPT !.query = Some([param_id |-> param_id])]
    \/ \E param_id \in EventHashes, display \in Displays :
           /\ Quiescent
           /\ TextToValue(param_id, display, FALSE, FALSE)
           /\ hist' = [ValuesSeen EXCEPT !.query = Some([param_id |-> param_id,
                                                    display |-> display])]

SpecValues == Init /\ [][NextValues]_vars

\* ---------------------------------------------------------------- bypass text and bypass updates
\* The host sets the bypass parameter through ext_params_flush and converts
\* between its plain value and its text.  hist keeps the value of the last
\* Set, the last text parsed with the value it gave, and the value last shown.
BypassSets ==
    [space_id : {CLAP_CORE_EVENT_SPACE_ID}, type : {CLAP_EVENT_PARAM_VALUE},
     param_id : {BYPASS_PARAM_HASH}, value : PlainValues]
BypassTexts ==
    [utf8 : {TRUE}, text : {<<"Bypassed">>, <<"Not Bypassed">>, <<"bypassed">>}]
NoTextSeen == [set |-> None, parsed |-> None, shown |-> None]
TextSeen == IF hist = <<>> THEN NoTextSeen ELSE hist

NextText ==
    \/ Quiescent /\ FlushBegin(FALSE, 1) /\ UNCHANGED hist
    \/ \E event \in BypassSets :
           /\ FlushEvent(event)
           /\ hist' = [TextSeen EXCEPT !.set = Some(event.value)]
    \/ FlushEnd /\ UNCHANGED hist
    \/ \E value \in PlainValues :
           /\ Quiescent
           /\ ValueToText(BYPASS_PARAM_HASH, value, FALSE)
           /\ hist' = [TextSeen EXCEPT !.shown = Some(value)]
    \/ \E display \in BypassTexts :
           /\ Quiescent
           /\ TextToValue(BYPASS_PARAM_HASH, display, FALSE, FALSE)
           /\ hist' = [TextSeen EXCEPT
                          !.parsed = IF last'.ret
                                     THEN Some([text |-> display.text, value |-> last'.out[1]])
                                     ELSE @]

SpecText == Init /\ [][NextText]_vars

\* ---------------------------------------------------------------- note event timing
\* The wrapper reads a note event from the host.
NoteRead(event) ==
    /\ note_event' = event
    /\ last' = [op |-> "note_read"]
    /\ UNCHANGED <<inst_vars, registry_vars, host_mem, task_vars, audio, mainc, hist>>

\* event.timing()
NoteTiming ==
    /\ last' = [op |-> "timing", ret |-> Timing(note_event)]
    /\ UNCHANGED <<inst_vars, registry_vars, note_event, host_mem, task_vars, audio, mainc, hist>>

\* event.subtract_timing(samples).  With samples above the timing the
\* subtraction overflows: a build with overflow checks panics, one without
\* them wraps around.
NoteSubtractTiming(samples) ==
    /\ \/ /\ note_event' = SubtractTiming(note_event, samples)
          /\ last' = [op |-> "subtract_timing", samples |-> samples]
       \/ /\ samples > Timing(note_event)
          /\ note_event' = note_event
          /\ last' = [op |-> "subtract_timing_panic", samples |-> samples]
    /\ UNCHANGED <<inst_vars, registry_vars, host_mem, task_vars, audio, mainc, hist>>

Shifts == {0, 1, 40, 100, 101}
NextMidi ==
    \/ \E event \in NoteEvents : NoteRead(event)
    \/ NoteTiming
    \/ \E samples \in Shifts : NoteSubtractTiming(samples)

SpecMidi == Init /\ [][NextMidi]_vars

\* ---------------------------------------------------------------- activate, step by step
\* activate up to the call of the plugin's initialize: the buffer
\* configuration is built and the smoothers are reset.
ActivateBegin(sample_rate, max_frames_count) ==
    /\ ~panicked
    /\ mainc.pc = "idle"
    /\ LET buffer_config == [sample_rate |-> sample_rate,
                             max_buffer_size |-> max_frames_count]
       IN  /\ smoothers' = SmoothersAfterReset(smoothers, params, buffer_config.sample_rate)
           /\ mainc' = [pc |-> "activate", buffer_config |-> buffer_config]
           /\ last' = [op |-> "activate_enter"]
    /\ UNCHANGED <<params, bypass_state, current_buffer_config, output_slices,
                   registry_vars, note_event, host_mem, task_vars, audio>>

\* activate from the return of initialize, which answers `initialized`.
ActivateInitialize(initialized) ==
    /\ ~panicked
    /\ mainc.pc = "activate"
    /\ output_slices' = OutputSlicesAfterActivate(output_slices, initialized)
    /\ current_buffer_config' =
           BufferConfigAfterActivate(current_buffer_config, mainc.buffer_config, initialized)
    /\ last' = [op |-> "activate", config |-> mainc.buffer_config, ret |-> initialized]
    /\ mainc' = Idle
    /\ UNCHANGED <<params, smoothers, bypass_state, registry_vars, note_event, host_mem,
                   task_vars, audio>>

NextActivate ==
    \/ Quiescent /\ (\E sample_rate \in SampleRates : ActivateBegin(sample_rate, 512))
       /\ UNCHANGED hist
    \/ (\E initialized \in BOOLEAN : ActivateInitialize(initialized)) /\ UNCHANGED hist
    \/ Quiescent /\ FlushBegin(FALSE, 1) /\ UNCHANGED hist
    \/ (\E event \in ListEvents : FlushEvent(event)) /\ UNCHANGED hist
    \/ FlushEnd /\ UNCHANGED hist

SpecActivate == Init /\ [][NextActivate]_vars

\* ---------------------------------------------------------------- updates of an active and an inactive instance
\* The host activates an inactive instance, deactivates an active one and
\* sends events in between.  hist keeps whether the instance is active (the
\* last of the host's activate and deactivate calls is an activate that
\* succeeded) and the event dispatched last.
NeverActive == [active |-> FALSE, event |-> None]
Activity == IF hist = <<>> THEN NeverActive ELSE hist

NextActive ==
    \/ \E sample_rate \in SampleRates, initialized \in BOOLEAN :
           /\ Quiescent
           /\ ~Activity.active
           /\ Activate(sample_rate, 512, initialized)
           /\ hist' = [Activity EXCEPT !.active = initialized]
    \/ /\ Quiescent
       /\ Activity.active
       /\ Deactivate
       /\ hist' = [Activity EXCEPT !.active = FALSE]
    \/ Quiescent /\ FlushBegin(FALSE, 1) /\ UNCHANGED hist
    \/ \E event \in ListEvents :
           FlushEvent(event) /\ hist' = [Activity EXCEPT !.event = Some(event)]
    \/ FlushEnd /\ UNCHANGED hist

SpecActive == Init /\ [][NextActive]_vars

\* ---------------------------------------------------------------- the steps of one process call
\* hist keeps the steps of the process call in progress (or of the one that
\* returned last), in the order they were taken: the entry with the size of
\* the event list, every dispatch with its index, the set-up of the buffers
\* and the plugin's processing step.
StepEnter(num_events) == <<"enter", num_events>>
StepEvent(event_idx) == <<"event", event_idx>>
StepBuffers == <<"buffers">>
StepPlugin == <<"plugin">>

NextOrder ==
    \/ Quiescent /\ (\E initialized \in BOOLEAN : Activate(48000, 512, initialized))
       /\ UNCHANGED hist
    \/ Quiescent /\ HostProcessBegin("t_audio") /\ hist' = <<StepEnter(audio'.num_events)>>
    \/ (\E event \in BlockEvents : ProcessEvent(event))
       /\ hist' = Append(hist, StepEvent(audio.event_idx))
    \/ HostBlock
       /\ hist' = IF audio'.pc = "plugin" THEN Append(hist, StepBuffers) ELSE hist
    \/ PluginProcess(FALSE) /\ hist' = Append(hist, StepPlugin)

SpecOrder == Init /\ [][NextOrder]_vars

\* ---------------------------------------------------------------- blocks with bypass on and off
\* The host switches bypass by events and runs blocks.  hist keeps the
\* arguments of the block in progress and the status the plugin reported.
BlockArgs(audio_outputs_count, frames_count, channel_count, base, wild, audio_inputs) ==
    [audio_outputs_count |-> audio_outputs_count, frames_count |-> frames_count,
     channel_count |-> channel_count, base |-> base, wild |-> wild,
     audio_inputs |-> audio_inputs, status |-> None]

NextBypass ==
    \/ Quiescent /\ Activate(48000, 512, TRUE) /\ UNCHANGED hist
    \/ Quiescent /\ ProcessBegin("t_audio", FALSE, 1) /\ UNCHANGED hist
    \/ (\E event \in BlockEvents : ProcessEvent(event)) /\ UNCHANGED hist
    \/ \E audio_outputs_count \in OutputCounts, frames_count \in 0..BufLen,
          channel_count \in ChannelCounts, base \in OutBases, wild \in WildPtrs :
           \E audio_inputs \in HostInputs(base) :
               /\ ProcessBuffers(audio_outputs_count, frames_count, channel_count, base, wild,
                                 audio_inputs)
               /\ hist' = BlockArgs(audio_outputs_count, frames_count, channel_count, base,
                                    wild, audio_inputs)
    \/ \E status \in ProcessStatuses :
           /\ ProcessPlugin(status, FALSE)
           /\ hist' = [hist EXCEPT !.status = Some(status)]
    \/ Quiescent /\ GetValue(BYPASS_PARAM_HASH, FALSE) /\ UNCHANGED hist

SpecBypass == Init /\ [][NextBypass]_vars

\* ---------------------------------------------------------------- the locks
\* The three RwLocks of the instance, all taken with write(): plugin,
\* input_events and output_buffer.  A guard is held from the step that takes
\* it to the end of its scope, so the locks a call holds follow from how far
\* the call has come.  process runs on the audio thread, activate on the
\* main thread.
Locks == {"plugin", "input_events", "output_buffer"}

\* process: output_buffer from `let mut output_buffer = ...write()`, plugin
\* from `let mut plugin = ...write()`, input_events from
\* make_process_context(); all three to the end of the call.
HeldInProcess(pc, lock) ==
    CASE lock = "output_buffer" -> pc \in {"lock_plugin", "lock_input_events", "plugin"}
      [] lock = "plugin" -> pc \in {"lock_input_events", "plugin"}
      [] lock = "input_events" -> pc = "plugin"

\* An activate that keeps the plugin guard until it returns.
HeldInActivate_KeepsPlugin(pc, lock) ==
    CASE lock = "plugin" -> pc \in {"lock_input_events", "initialize", "lock_output_buffer"}
      [] lock = "input_events" -> pc = "initialize"
      [] lock = "output_buffer" -> FALSE

\* activate: plugin and input_events are temporaries of the condition of the
\* `if`, dropped when initialize has returned; output_buffer is a temporary
\* of the resize statement.
HeldInActivate(pc, lock) ==
    CASE lock = "plugin" -> pc \in {"lock_input_events", "initialize"}
      [] lock = "input_events" -> pc = "initialize"
      [] lock = "output_buffer" -> FALSE

AudioHolds(lock) == HeldInProcess(audio.pc, lock)
MainHolds(lock) == HeldInActivate(mainc.pc, lock)

\* process: output_buffer.write() and, under the lock, the slices and the
\* copy of the inputs.
ProcessLockOutputBuffer(frames_count, channel_count, base, wild, audio_inputs) ==
    /\ ~panicked
    /\ audio.pc = "events"
    /\ audio.event_idx = audio.num_events
    /\ ~EarlyReturn(1, frames_count)
    /\ ~MainHolds("output_buffer")
    /\ audio' = [pc |-> "lock_plugin", thread |-> audio.thread,
                 num_events |-> audio.num_events, event_idx |-> audio.event_idx,
                 block |-> [frames_count |-> frames_count, channel_count |-> channel_count,
                            base |-> base, audio_inputs |-> audio_inputs]]
    /\ output_slices' = Repoint(output_slices, frames_count, channel_count, base, wild)
    /\ host_mem' = MemAfterCopy(host_mem, audio_inputs, frames_count, channel_count, base)
    /\ last' = [op |-> "process_buffers", thread |-> audio.thread]
    /\ UNCHANGED <<params, smoothers, bypass_state, current_buffer_config,
                   registry_vars, note_event, task_vars, mainc>>

\* process: plugin.write()
ProcessLockPlugin ==
    /\ ~panicked
    /\ audio.pc = "lock_plugin"
    /\ ~MainHolds("plugin")
    /\ audio' = [audio EXCEPT !.pc = "lock_input_events"]
    /\ UNCHANGED <<inst_vars, registry_vars, note_event, host_mem, task_vars, mainc, last>>

\* process: make_process_context(), input_events.write()
ProcessLockInputEvents ==
    /\ ~panicked
    /\ audio.pc = "lock_input_events"
    /\ ~MainHolds("input_events")
    /\ audio' = [audio EXCEPT !.pc = "plugin"]
    /\ UNCHANGED <<inst_vars, registry_vars, note_event, host_mem, task_vars, mainc, last>>

\* activate: plugin.write()
ActivateLockPlugin ==
    /\ ~panicked
    /\ mainc.pc = "activate"
    /\ ~AudioHolds("plugin")
    /\ mainc' = [mainc EXCEPT !.pc = "lock_input_events"]
    /\ UNCHANGED <<inst_vars, registry_vars, note_event, host_mem, task_vars, audio, last>>

\* activate: make_process_context(), input_events.write(); initialize is
\* called.
ActivateLockInputEvents ==
    /\ ~panicked
    /\ mainc.pc = "lock_input_events"
    /\ ~AudioHolds("input_events")
    /\ mainc' = [mainc EXCEPT !.pc = "initialize"]
    /\ UNCHANGED <<inst_vars, registry_vars, note_event, host_mem, task_vars, audio, last>>

\* activate: initialize returns `initialized` and both guards are dropped;
\* a rejected configuration ends the call.
ActivateInitializeReturns(initialized) ==
    /\ ~panicked
    /\ mainc.pc = "initialize"
    /\ IF initialized
       THEN /\ mainc' = [mainc EXCEPT !.pc = "lock_output_buffer"]
            /\ UNCHANGED last
       ELSE /\ mainc' = Idle
            /\ last' = [op |-> "activate", config |-> mainc.buffer_config, ret |-> FALSE]
    /\ UNCHANGED <<inst_vars, registry_vars, note_event, host_mem, task_vars, audio>>

\* activate: output_buffer.write() for the resize, then the configuration
\* is stored and the call returns true.
ActivateLockOutputBuffer ==
    /\ ~panicked
    /\ mainc.pc = "lock_output_buffer"
    /\ ~AudioHolds("output_buffer")
    /\ output_slices' = OutputSlicesAfterActivate(output_slices, TRUE)
    /\ current_buffer_config' =
           BufferConfigAfterActivate(current_buffer_config, mainc.buffer_config, TRUE)
    /\ last' = [op |-> "activate", config |-> mainc.buffer_config, ret |-> TRUE]
    /\ mainc' = Idle
    /\ UNCHANGED <<params, smoothers, bypass_state, registry_vars, note_event, host_mem,
                   task_vars, audio>>

\* The steps of the audio thread and of the main thread.
AudioStep ==
    \/ audio.pc = "idle" /\ ProcessBegin("t_audio", TRUE, 0)
    \/ ProcessBuffers(0, 0, DEFAULT_NUM_OUTPUTS, 100, -1, None)
    \/ \E base \in OutBases :
           ProcessLockOutputBuffer(1, DEFAULT_NUM_OUTPUTS, base, -1, None)
    \/ ProcessLockPlugin
    \/ ProcessLockInputEvents
    \/ ProcessPlugin("Normal", FALSE)
MainStep ==
    \/ \E sample_rate \in SampleRates : ActivateBegin(sample_rate, 512)
    \/ ActivateLockPlugin
    \/ ActivateLockInputEvents
    \/ \E initialized \in BOOLEAN : ActivateInitializeReturns(initialized)
    \/ ActivateLockOutputBuffer
    \/ FlushBegin(FALSE, 1)
    \/ \E event \in BlockEvents : FlushEvent(event)
    \/ FlushEnd
    \/ mainc.pc = "idle" /\ GetValue(BYPASS_PARAM_HASH, FALSE)

AudioThread == AudioStep /\ UNCHANGED hist
MainThread == MainStep /\ UNCHANGED hist

NextLocks ==
    \/ AudioThread
    \/ MainThread

SpecLocks == Init /\ [][NextLocks]_vars
\* parking_lot's locks are eventually fair: a thread that keeps asking for a
\* lock that is free again and again gets it.
SpecLocksFair == SpecLocks /\ SF_vars(AudioThread) /\ SF_vars(MainThread)

\* ---------------------------------------------------------------- modulation from two threads
\* update_plain_value_by_hash with PlainValueMod reads the normalized value
\* and then stores the sum; neither a lock nor an atomic operation spans the
\* two.  Here the audio thread (process) and the main thread (flush) each
\* dispatch modulation events, and the read and the store are steps of
\* their own.  hist keeps, for every parameter, its initial value plus all
\* the modulation dispatched to it.
ModEvents ==
    { [space_id |-> CLAP_CORE_EVENT_SPACE_ID, type |-> CLAP_EVENT_PARAM_MOD,
       param_id |-> HashParamId("gain"), value |-> F32Step],
      [space_id |-> CLAP_CORE_EVENT_SPACE_ID, type |-> CLAP_EVENT_PARAM_MOD,
       param_id |-> HashParamId("mode"), value |-> 3 * F32Step] }
Modulated == IF hist = <<>> THEN [p \in ParamPtrs |-> InitialNormalized(p)] ELSE hist
ModDelta(event) ==
    F32Div(AsF32(event.value), UnwrapOr(StepCount(param_by_hash[event.param_id]), 1))

\* let current_normalized_value = param_ptr.normalized_value()
ModulateRead(call, event) ==
    [pc |-> "modulate", event |-> event,
     current_normalized_value |-> NormalizedValue(params, param_by_hash[event.param_id]),
     resume |-> call]

\* set_normalized_value(current_normalized_value + delta / N), the smoother,
\* and the return to the event loop.
ModulateStore(call) ==
    LET param_ptr == param_by_hash[call.event.param_id]
        ps == SetNormalizedValue(params, param_ptr,
                                 F32Add(call.current_normalized_value, ModDelta(call.event)))
    IN  /\ InRange(ps)
        /\ params' = ps
        /\ smoothers' = SmoothersAfter(smoothers, ps, param_ptr,
                                       CurrentSampleRate(current_buffer_config))
        /\ last' = [op |-> "handle_event", handled |-> TRUE, ret |-> TRUE]
        /\ hist' = [Modulated EXCEPT ![param_ptr] = @ + ModDelta(call.event)]

ProcessModulateRead(event) ==
    /\ ~panicked
    /\ audio.pc = "events"
    /\ audio.event_idx < audio.num_events
    /\ Modulated[param_by_hash[event.param_id]] + ModDelta(event) <= NormMax
    /\ audio' = ModulateRead(audio, event)
    /\ UNCHANGED <<inst_vars, registry_vars, note_event, host_mem, task_vars, mainc, last, hist>>
ProcessModulateStore ==
    /\ ~panicked
    /\ audio.pc = "modulate"
    /\ ModulateStore(audio)
    /\ audio' = [audio.resume EXCEPT !.event_idx = @ + 1]
    /\ UNCHANGED <<bypass_state, current_buffer_config, output_slices, registry_vars,
                   note_event, host_mem, task_vars, mainc>>
FlushModulateRead(event) ==
    /\ ~panicked
    /\ mainc.pc = "flush"
    /\ mainc.event_idx < mainc.num_events
    /\ Modulated[param_by_hash[event.param_id]] + ModDelta(event) <= NormMax
    /\ mainc' = ModulateRead(mainc, event)
    /\ UNCHANGED <<inst_vars, registry_vars, note_event, host_mem, task_vars, audio, last, hist>>
FlushModulateStore ==
    /\ ~panicked
    /\ mainc.pc = "modulate"
    /\ ModulateStore(mainc)
    /\ mainc' = [mainc.resume EXCEPT !.event_idx = @ + 1]
    /\ UNCHANGED <<bypass_state, current_buffer_config, output_slices, registry_vars,
                   note_event, host_mem, task_vars, audio>>

NextRace ==
    \/ Quiescent /\ Activate(48000, 512, TRUE) /\ UNCHANGED hist
    \/ audio.pc = "idle" /\ ProcessBegin("t_audio", FALSE, 1) /\ UNCHANGED hist
    \/ \E event \in ModEvents : ProcessModulateRead(event)
    \/ ProcessModulateStore
    \/ ProcessBuffers(0, 0, DEFAULT_NUM_OUTPUTS, 100, -1, None) /\ UNCHANGED hist
    \/ FlushBegin(FALSE, 1) /\ UNCHANGED hist
    \/ \E event \in ModEvents : FlushModulateRead(event)
    \/ FlushModulateStore
    \/ FlushEnd /\ UNCHANGED hist

SpecRace == Init /\ [][NextRace]_vars

\* ---------------------------------------------------------------- claims
\* A step that dispatches `event` from the event list of process or flush.
DispatchOf(event) == ProcessEvent(event) \/ FlushEvent(event)
CoreParamEvent(event) ==
    /\ event.space_id = CLAP_CORE_EVENT_SPACE_ID
    /\ event.type \in {CLAP_EVENT_PARAM_VALUE, CLAP_EVENT_PARAM_MOD}

Unrecognized(event) ==
    ~CoreParamEvent(event) \/ event.param_id \notin KnownHashes
\* The f32 values around the model's range.
F32Values == {k * F32Step : k \in -(MaxNormSteps + 2)..(MaxNormSteps + 2)}
\* x is an f32 value nearest to num / den.
NearestF32(x, num, den) == x \in F32Values /\ 2 * Abs(den * x - num) <= den * F32Step

\* C1: do_maybe_async from a thread that is not the main thread never blocks
\* (it can be called in every state, also during a process call); it returns
\* true exactly when the task was appended to the queue; request_callback is
\* called once when the push succeeded and not at all when it failed; on a
\* full queue it returns false and leaves the queue as it is, so the queue
\* never holds more than TASK_QUEUE_CAPACITY tasks.
C1_NonMainSubmit ==
    /\ [](\A t \in Threads :
            (~panicked /\ task_seq < MaxSubmits /\ ~IsMainThread(t)) => ENABLED SubmitTask(t))
    /\ [](Len(tasks) <= TASK_QUEUE_CAPACITY)
    /\ [][(task_seq' = task_seq + 1 /\ ~IsMainThread(last'.thread)) =>
            LET ret == IF last'.op = "do_maybe_async" THEN last'.ret ELSE last'.submit_ret
            IN  /\ ~panicked'
                /\ ret <=> (tasks' = Append(tasks, NewTask))
                /\ ret => callbacks' = callbacks + 1
                /\ ~ret => (callbacks' = callbacks /\ tasks' = tasks)
                /\ Len(tasks) = TASK_QUEUE_CAPACITY => (~ret /\ tasks' = tasks)]_vars

\* C1 witness: a thread that is not the main thread was refused on a full
\* queue, after one callback request per queued task.
C1_Witness ==
    /\ last.op = "do_maybe_async"
    /\ ~last.main
    /\ ~last.ret
    /\ Len(tasks) = TASK_QUEUE_CAPACITY
    /\ callbacks = TASK_QUEUE_CAPACITY

\* C2: after on_main_thread has run, the queue is empty and every task that
\* was queued has been executed exactly once, in the order it was queued;
\* none is lost.
C2_TasksExecutedOnce ==
    last.op = "on_main_thread" =>
        /\ ~panicked
        /\ tasks = <<>>
        /\ [i \in 1..Len(executed) |-> executed[i].id] = queued

\* C3: do_maybe_async from the recognized main thread executes the task
\* before it returns, returns true, leaves the queue as it is and requests
\* no callback.
C3_MainThreadSubmit ==
    [][(last'.op = "do_maybe_async" /\ task_seq' = task_seq + 1 /\ last'.main) =>
          /\ ~panicked'
          /\ last'.ret = TRUE
          /\ executed' = Append(executed, last'.task)
          /\ tasks' = tasks
          /\ callbacks' = callbacks]_vars

\* C5: no call made in the audio context panics: process, with whatever task
\* submission the plugin's processing step makes through its context, always
\* returns a status code.
C5_ProcessNeverPanics == ~(panicked /\ last.op = "process_panic")

\* C4 as stated: a get_value made during a block reports the value from
\* before the block or from after its last event, never one from between
\* two dispatches.  Checked when the event loop of the block has finished.
C4_QueryNeverInsideBlock ==
    (audio.pc = "events" /\ audio.event_idx = audio.num_events /\ IsSome(hist.obs)) =>
        \/ hist.obs[1].value = PlainOf(hist.trace[1], hist.obs[1].param_id)
        \/ hist.obs[1].value = PlainOf(ParamState, hist.obs[1].param_id)

\* C4 as amended: a get_value made during a block reports the value the
\* parameter (or bypass) has after a whole number of the block's events,
\* namely those dispatched before the query.
C4_QuerySeesPrefix ==
    (audio.pc = "events" /\ IsSome(hist.obs)) =>
        hist.obs[1].value = PlainOf(hist.trace[hist.obs[1].event_idx + 1], hist.obs[1].param_id)

\* C4 witness: a query made between the two dispatches of a block saw a value
\* that is neither the one before the block nor the one after it.
C4_Witness ==
    /\ audio.pc = "events"
    /\ audio.num_events = 2
    /\ audio.event_idx = 2
    /\ IsSome(hist.obs)
    /\ hist.obs[1].event_idx = 1
    /\ hist.obs[1].param_id = HashParamId("mode")
    /\ hist.obs[1].value # PlainOf(hist.trace[1], hist.obs[1].param_id)
    /\ hist.obs[1].value # PlainOf(ParamState, hist.obs[1].param_id)

\* C6: when initialize rejects the configuration, activate returns false and
\* the stored buffer configuration, the output slices, the bypass state and
\* every normalized value are as before the call.
C6_RejectedActivate ==
    [][(last'.op = "activate" /\ ~last'.ret) =>
          /\ current_buffer_config' = current_buffer_config
          /\ output_slices' = output_slices
          /\ bypass_state' = bypass_state
          /\ params' = params]_vars

\* C6 witness: a rejected activation of an instance that was activated with
\* another configuration and has processed a block.
C6_Witness ==
    /\ last.op = "activate"
    /\ ~last.ret
    /\ IsSome(current_buffer_config)
    /\ current_buffer_config[1] # last.config
    /\ Len(output_slices) > 0
    /\ output_slices[1].len > 0

\* C7: an event that is no core parameter-value or parameter-modulation
\* event, or whose hash is neither the bypass hash nor registered, changes
\* no instance state and is no error (update_plain_value_by_hash returns
\* false, nothing panics, process returns the error status only for the
\* plugin's Error), and the loop goes on: every event of the list is
\* dispatched.
C7_UnrecognizedEvent ==
    [][/\ last'.op = "handle_event" => \A event \in Events :
              (Unrecognized(event) /\ DispatchOf(event)) =>
                  /\ UNCHANGED inst_vars
                  /\ last'.ret = FALSE
                  /\ ~panicked'
                  /\ ProcessEvent(event) =>
                         (audio'.pc = "events" /\ audio'.event_idx = audio.event_idx + 1)
                  /\ FlushEvent(event) =>
                         (mainc'.pc = "flush" /\ mainc'.event_idx = mainc.event_idx + 1)
       /\ (last'.op = "process" /\ audio.pc # "idle") =>
              /\ last'.dispatched = audio.num_events
              /\ last'.ret = CLAP_PROCESS_ERROR =>
                     (last'.plugin_called /\ last'.status = "Error")
       /\ (last'.op = "flush" /\ mainc.pc = "flush") =>
              last'.dispatched = mainc.num_events]_vars

\* C7 witness: an event with an unknown hash was dispatched, the update
\* returned false, and events of the same list are still to come.
C7_Witness ==
    /\ last.op = "handle_event"
    /\ last.handled
    /\ ~last.ret
    /\ audio.pc = "events"
    /\ audio.event_idx < audio.num_events

\* C8: a malformed host call returns a failure value, changes no instance
\* state and writes nothing for the host: process with a null pointer
\* returns the error status; get_info with a null pointer, a negative index
\* or an index above the declared count returns false; get_value,
\* value_to_text and text_to_value with a null pointer return false.
C8_MalformedCall ==
    [][/\ (last'.op = "process" /\ audio.pc = "idle" /\ last'.null) =>
              (last'.ret = CLAP_PROCESS_ERROR /\ UNCHANGED <<inst_vars, task_vars>>)
       /\ ( /\ last'.op = "get_info"
            /\ \/ last'.info_null
               \/ last'.param_index < 0
               \/ last'.param_index > Len(param_hashes) ) =>
              (~last'.ret /\ last'.out = None /\ UNCHANGED <<inst_vars, task_vars>>)
       /\ (last'.op = "get_value" /\ last'.value_null) =>
              (~last'.ret /\ last'.out = None /\ UNCHANGED <<inst_vars, task_vars>>)
       /\ (last'.op = "value_to_text" /\ last'.display_null) =>
              (~last'.ret /\ last'.out = None /\ UNCHANGED <<inst_vars, task_vars>>)
       /\ (last'.op = "text_to_value" /\ (last'.display_null \/ last'.value_null)) =>
              (~last'.ret /\ last'.out = None /\ UNCHANGED <<inst_vars, task_vars>>)]_vars

\* C8 witness: get_info with an index above the declared count, on an
\* activated instance with bypass on, failed and wrote nothing.
C8_Witness ==
    /\ last.op = "get_info"
    /\ ~last.info_null
    /\ last.param_index > Len(param_hashes)
    /\ ~last.ret
    /\ last.out = None
    /\ bypass_state
    /\ IsSome(current_buffer_config)

\* C10: update_plain_value_by_hash on a registered hash other than the
\* bypass hash, of a parameter with step count N (1 when continuous),
\* returns true and sets the normalized value to plain / N for Set(plain)
\* and to current + delta / N for Modulate(delta), in f32: the quotient is
\* the f32 nearest to (plain as f32) / N.  Bypass and the other parameters
\* stay as they are.
C10_ParamUpdate ==
    [][last'.op = "handle_event" => \A event \in ParamEvents :
          (event.param_id \in DOMAIN param_by_hash /\ event.param_id # BYPASS_PARAM_HASH
              /\ DispatchOf(event)) =>
              LET param_ptr == param_by_hash[event.param_id]
                  N == UnwrapOr(StepCount(param_ptr), 1)
                  base == IF event.type = CLAP_EVENT_PARAM_VALUE THEN 0 ELSE params[param_ptr]
              IN  /\ last'.ret = TRUE
                  /\ bypass_state' = bypass_state
                  /\ \A other \in ParamPtrs \ {param_ptr} :
                         params'[other] = params[other] /\ smoothers'[other] = smoothers[other]
                  /\ \E x \in F32Values :
                         /\ NearestF32(x, event.value, 1)
                         /\ NearestF32(params'[param_ptr] - base, x, N)]_vars

\* C10 witness: the stepped parameter holds 0.25, the f32 nearest to 0.5 / 3,
\* and the continuous one 1.0, after a dispatch that reached the update.
C10_Witness ==
    /\ params["mode"] = F32Step
    /\ params["gain"] = One
    /\ last.op = "handle_event"
    /\ last.ret

\* C9: update_plain_value_by_hash on the bypass hash returns true; Set(plain)
\* makes bypass true exactly when plain >= 0.5; Modulate(delta) makes it true
\* for delta > 0, false for delta < 0 and leaves it for delta = 0; no
\* parameter value and no smoother changes.  Whatever the bypass state is and
\* whether or not a sample rate is known.
C9_BypassUpdate ==
    [][last'.op = "handle_event" => \A event \in ParamEvents :
          (event.param_id = BYPASS_PARAM_HASH /\ DispatchOf(event)) =>
              /\ last'.ret = TRUE
              /\ params' = params
              /\ smoothers' = smoothers
              /\ event.type = CLAP_EVENT_PARAM_VALUE =>
                     (bypass_state' <=> 2 * event.value >= One)
              /\ (event.type = CLAP_EVENT_PARAM_MOD /\ event.value > 0) => bypass_state'
              /\ (event.type = CLAP_EVENT_PARAM_MOD /\ event.value < 0) => ~bypass_state'
              /\ (event.type = CLAP_EVENT_PARAM_MOD /\ event.value = 0) =>
                     (bypass_state' <=> bypass_state)]_vars

\* C9 witness: bypass is on after a dispatch that reached the update, with a
\* sample rate known.
C9_Witness ==
    /\ bypass_state
    /\ last.op = "handle_event"
    /\ last.ret
    /\ IsSome(current_buffer_config)

\* C11: in every reachable state count() returns n + 1 for the n declared
\* parameters; get_info(i) for 0 <= i < n succeeds and reports the hash of
\* the i-th declared string ID; get_info(n) succeeds and reports the bypass
\* entry (bypass hash, min 0, max 1, default 0); and the hash order and the
\* hash-to-handle mapping are the ones construction made.
C11_Enumeration ==
    /\ param_hashes = [i \in 1..Len(ParamIds) |-> HashParamId(ParamIds[i])]
    /\ DOMAIN param_by_hash = {HashParamId(ParamIds[i]) : i \in 1..Len(ParamIds)}
    /\ \A i \in 1..Len(ParamIds) : param_by_hash[HashParamId(ParamIds[i])] = ParamIds[i]
    /\ last.op = "count" => last.ret = Len(ParamIds) + 1
    /\ (last.op = "get_info" /\ ~last.info_null /\ 0 <= last.param_index
           /\ last.param_index < Len(ParamIds)) =>
          (last.ret /\ last.out[1].id = HashParamId(ParamIds[last.param_index + 1]))
    /\ (last.op = "get_info" /\ ~last.info_null /\ last.param_index = Len(ParamIds)) =>
          /\ last.ret
          /\ last.out[1].id = BYPASS_PARAM_HASH
          /\ last.out[1].min_value = 0
          /\ last.out[1].max_value = One
          /\ last.out[1].default_value = 0

\* C11 witness: get_info of the last declared parameter succeeded on an
\* activated instance whose parameters and bypass have been changed.
C11_Witness ==
    /\ last.op = "get_info"
    /\ last.ret
    /\ last.param_index = Len(ParamIds) - 1
    /\ IsSome(current_buffer_config)
    /\ bypass_state
    /\ params["mode"] # InitialNormalized("mode")

\* C12: no instance exists in which a declared parameter is registered under
\* the reserved bypass hash or reported with it by get_info: construction of
\* a plugin that declares the ID "bypass" fails.
C12_NoDeclaredBypass ==
    (last.op = "get_info" /\ last.ret /\ last.param_index < Len(param_hashes)) =>
        /\ last.out[1].id # BYPASS_PARAM_HASH
        /\ BYPASS_PARAM_HASH \notin DOMAIN param_by_hash

\* C13: a process call that reaches the plugin's processing step returns the
\* code of the plugin's status: Error the error code, Normal
\* continue-if-not-quiet, Tail and KeepAlive continue.  Whatever the status,
\* the call leaves the instance state, the registry and the task queue as
\* they were and the instance ready for the next process call, so the call
\* after an Error starts from the state it would start from after any other
\* status.
C13_StatusMapping ==
    [][(last'.op = "process" /\ audio.pc = "plugin") =>
          /\ last'.plugin_called
          /\ last'.status = "Error" => last'.ret = CLAP_PROCESS_ERROR
          /\ last'.status = "Normal" => last'.ret = CLAP_PROCESS_CONTINUE_IF_NOT_QUIET
          /\ last'.status \in {"Tail", "KeepAlive"} => last'.ret = CLAP_PROCESS_CONTINUE
          /\ UNCHANGED <<inst_vars, registry_vars, note_event, task_vars, mainc>>
          /\ ~panicked'
          /\ audio' = Idle
          /\ host_mem' = FreshMem]_vars

\* C13 witness: the plugin reported Error for a block of an activated
\* instance with bypass on; process returned the error code and the instance
\* is idle with its state kept.
C13_Witness ==
    /\ last.op = "process"
    /\ ~last.null
    /\ last.plugin_called
    /\ last.status = "Error"
    /\ last.ret = CLAP_PROCESS_ERROR
    /\ audio = Idle
    /\ bypass_state
    /\ IsSome(current_buffer_config)
    /\ Len(output_slices) = DEFAULT_NUM_OUTPUTS

\* C14: a process call whose block has no frames or no output bus returns
\* the continue status after it has dispatched all events of the block; the
\* output slices and the host's sample memory are as before, and the
\* plugin's processing step is not invoked.
C14_EmptyBlock ==
    [][(audio.pc = "events" /\ audio'.pc # "events") =>
          \A audio_outputs_count \in OutputCounts, frames_count \in 0..BufLen,
             channel_count \in ChannelCounts, base \in OutBases, wild \in WildPtrs :
              \A audio_inputs \in HostInputs(base) :
                  ( /\ audio_outputs_count = 0 \/ frames_count = 0
                    /\ ProcessBuffers(audio_outputs_count, frames_count, channel_count,
                                      base, wild, audio_inputs) ) =>
                      /\ last'.op = "process"
                      /\ ~last'.plugin_called
                      /\ last'.ret = CLAP_PROCESS_CONTINUE
                      /\ last'.dispatched = audio.num_events
                      /\ audio' = Idle
                      /\ output_slices' = output_slices
                      /\ host_mem' = host_mem
                      /\ UNCHANGED <<current_buffer_config, task_vars>>]_vars

\* C14 witness: a block without frames or outputs returned after two events
\* were dispatched (bypass is on), with the slices of an earlier block kept.
C14_Witness ==
    /\ last.op = "process"
    /\ ~last.null
    /\ ~last.plugin_called
    /\ last.dispatched = 2
    /\ bypass_state
    /\ Len(output_slices) = DEFAULT_NUM_OUTPUTS
    /\ output_slices[1].len > 0

\* C15: after a successful activation with k output channels, when the
\* plugin's processing step is invoked for a block of n > 0 frames in which
\* the host supplies (at least) k output channels, the output view has
\* exactly k slices and slice i has length n and starts at the address the
\* host supplied for output channel i.
C15_OutputView ==
    ( /\ audio.pc = "plugin"
      /\ IsSome(current_buffer_config)
      /\ audio.block.channel_count >= current_bus_config.num_output_channels ) =>
        /\ Len(output_slices) = current_bus_config.num_output_channels
        /\ \A i \in 1..Len(output_slices) :
               /\ output_slices[i].len = audio.block.frames_count
               /\ output_slices[i].ptr = audio.block.base + (i - 1)

\* C15 witness: the processing step is about to run on a block of one frame
\* at the second output address, after an earlier block at the first one.
C15_Witness ==
    /\ audio.pc = "plugin"
    /\ IsSome(current_buffer_config)
    /\ audio.block.channel_count = DEFAULT_NUM_OUTPUTS
    /\ audio.block.base = 200
    /\ audio.block.frames_count = 1
    /\ Len(output_slices) = DEFAULT_NUM_OUTPUTS
    /\ output_slices[2] = [ptr |-> 201, len |-> 1]

\* The block the processing step is about to run on: its input bus, the
\* address of input channel c and of output channel c (c counted from 0).
BlockInputs == audio.block.audio_inputs[1]
InPtr(c) == BlockInputs.data32[c + 1]
OutPtr(c) == audio.block.base + c
CopiedChannels == Min(BlockInputs.channel_count, audio.block.channel_count)
HasInputBus == audio.pc = "plugin" /\ IsSome(audio.block.audio_inputs)
\* The copy step has done what C16 states.
CopyDone ==
    /\ \A c \in 0..(CopiedChannels - 1) :
           IF InPtr(c) # OutPtr(c)
           THEN \A k \in 1..audio.block.frames_count :
                    host_mem[OutPtr(c)][k] = FreshMem[InPtr(c)][k]
           ELSE host_mem[OutPtr(c)] = FreshMem[OutPtr(c)]
    /\ \A c \in CopiedChannels..(audio.block.channel_count - 1) :
           host_mem[OutPtr(c)] = FreshMem[OutPtr(c)]
    /\ \A c \in 0..(BlockInputs.channel_count - 1) :
           host_mem[InPtr(c)] = FreshMem[InPtr(c)]
\* No input channel has its buffer at the address of another channel's
\* output buffer.
NoCrossAliasing ==
    \A ci \in 0..(BlockInputs.channel_count - 1), co \in 0..(audio.block.channel_count - 1) :
        ci # co => InPtr(ci) # OutPtr(co)

\* C16 as stated: before the processing step of a block with an input bus,
\* every output channel c < min(inputs, outputs) whose input pointer differs
\* holds the block's frames_count input samples of channel c, a channel with
\* equal pointers is as the host left it, the output channels from
\* min(inputs, outputs) on are untouched and no input memory is written.
C16_CopyStep == HasInputBus => CopyDone

\* C16 as amended: the same, for the blocks in which no input channel shares
\* its buffer with the output of another channel.
C16_CopyStepNoCrossAliasing == (HasInputBus /\ NoCrossAliasing) => CopyDone

\* C16 witness: one input channel in a buffer of its own and two output
\* channels: output channel 0 holds the input's samples, output channel 1 is
\* as the host left it.
C16_Witness ==
    /\ HasInputBus
    /\ NoCrossAliasing
    /\ BlockInputs.channel_count = 1
    /\ audio.block.channel_count = 2
    /\ audio.block.frames_count = BufLen
    /\ InPtr(0) = 300
    /\ host_mem[OutPtr(0)] = FreshMem[300]
    /\ host_mem[OutPtr(0)] # FreshMem[OutPtr(0)]
    /\ host_mem[OutPtr(1)] = FreshMem[OutPtr(1)]

\* C18: when a process call has returned, no slice of the output view
\* refers to host memory.
C18_NoPointerRetained ==
    (audio.pc = "idle" /\ last.op = "process") =>
        \A i \in 1..Len(output_slices) : output_slices[i].ptr = NoHostMem


\* The per-event dispatch folded over a list: handle_event applied to every
\* event in index order, each with the sample rate of `config`.
RECURSIVE DispatchAll(_, _, _)
DispatchAll(st, config, events) ==
    IF events = <<>>
    THEN st
    ELSE LET r == HandleEvent(st, config, Head(events))
         IN  DispatchAll([params |-> r.params, smoothers |-> r.smoothers,
                          bypass_state |-> r.bypass_state], config, Tail(events))
ListStarted == hist # <<>>

\* C17: a list of events dispatched through ext_params_flush leaves the
\* parameter values, the smoothers and the bypass state as the same list
\* dispatched as the in-block events of process from the same starting state
\* does: on either path the state after the events read so far is
\* handle_event folded over them in index order, with the sample rate of the
\* current buffer configuration, and each path has read exactly as many
\* events as its loop index says.
C17_FlushAsProcess ==
    ListStarted =>
        /\ ParamState = DispatchAll(hist.start, current_buffer_config, hist.events)
        /\ hist.path = "flush" /\ mainc.pc = "flush" => Len(hist.events) = mainc.event_idx
        /\ hist.path = "process" /\ audio.pc = "events" => Len(hist.events) = audio.event_idx
        /\ last.op = "flush" => Len(hist.events) = last.dispatched
        /\ last.op = "process" /\ ~last.null => Len(hist.events) = last.dispatched
C17_Witness ==
    /\ ListStarted
    /\ hist.path = "flush"
    /\ last.op = "flush"
    /\ Len(hist.events) = 2
    /\ IsSome(current_buffer_config)
    /\ params # hist.start.params
    /\ smoothers # hist.start.smoothers
    /\ bypass_state # hist.start.bypass_state


\* The last update was Set(p) by a core value event on a registered hash that
\* is not the bypass hash, and the last call is get_value for that hash.
ReadBackAfterSet ==
    /\ last.op = "get_value"
    /\ IsSome(ValuesSeen.update)
    /\ ValuesSeen.update[1].type = CLAP_EVENT_PARAM_VALUE
    /\ ValuesSeen.update[1].param_id # BYPASS_PARAM_HASH
    /\ ValuesSeen.update[1].param_id \in DOMAIN param_by_hash
    /\ ValuesSeen.query[1].param_id = ValuesSeen.update[1].param_id
SetValue == ValuesSeen.update[1].value
SetStepCount == UnwrapOr(StepCount(param_by_hash[ValuesSeen.update[1].param_id]), 1)
\* get_value on the bypass hash and on an unregistered hash.
ReadBackOther ==
    last.op = "get_value" =>
        /\ ValuesSeen.query[1].param_id = BYPASS_PARAM_HASH =>
               last.ret /\ last.out = Some(IF bypass_state THEN One ELSE 0)
        /\ ValuesSeen.query[1].param_id \notin KnownHashes =>
               ~last.ret /\ last.out = None

\* C19, as stated: after Set(p) on a registered non-bypass hash, with no
\* other update in between, get_value for that hash succeeds and reports p;
\* on the bypass hash it reports 1 / 0 for bypass on / off; on an unregistered
\* hash it returns false.
C19_ReadBackExact ==
    /\ ReadBackAfterSet => last.ret /\ last.out = Some(SetValue)
    /\ ReadBackOther

\* C19, amended: after Set(p) on a registered non-bypass hash with step
\* count N, with no other update in between, get_value for that hash succeeds
\* and reports x * N, x being the current normalized value: the f32 nearest to
\* y / N for y the f32 nearest to p.  The bypass hash and an unregistered hash
\* as stated.
C19_ReadBackF32 ==
    /\ ReadBackAfterSet =>
           /\ last.ret
           /\ last.out = Some(params[param_by_hash[ValuesSeen.update[1].param_id]]
                               * SetStepCount)
           /\ \E x, y \in F32Values :
                  /\ NearestF32(y, SetValue, 1)
                  /\ NearestF32(x, y, SetStepCount)
                  /\ last.out = Some(x * SetStepCount)
    /\ ReadBackOther
C19_Witness ==
    /\ ReadBackAfterSet
    /\ SetStepCount = 3
    /\ last.ret
    /\ last.out # Some(SetValue)

\* The text of a C string; a string that is not valid UTF-8 is neither of
\* the two texts of the bypass parameter.
TextIs(display, text) == display.utf8 /\ display.text = <<text>>
BypassTextQuery ==
    /\ last.op = "text_to_value"
    /\ ValuesSeen.query[1].param_id = BYPASS_PARAM_HASH

\* C20: text_to_value on the bypass hash (with a text and a place for the
\* value) succeeds for exactly two texts: "Bypassed" yields 1, "Not
\* Bypassed" yields 0; for every other text it fails and writes no value.  It
\* never changes the bypass state.
C20_BypassText ==
    /\ [](BypassTextQuery =>
            LET display == ValuesSeen.query[1].display
            IN  /\ last.ret <=> (TextIs(display, "Bypassed") \/ TextIs(display, "Not Bypassed"))
                /\ TextIs(display, "Bypassed") => last.out = Some(One)
                /\ TextIs(display, "Not Bypassed") => last.out = Some(0)
                /\ ~last.ret => last.out = None)
    /\ [][last'.op = "text_to_value" => bypass_state' = bypass_state]_vars
C20_Witness ==
    /\ BypassTextQuery
    /\ ValuesSeen.query[1].display.text = <<"bypassed">>
    /\ ~last.ret
    /\ bypass_state


\* The fields of a note event other than its timing.
OtherFields(event) == [f \in DOMAIN event \ {"timing"} |-> event[f]]

\* C21: for every NoteEvent variant with timing t and every shift s <= t,
\* subtract_timing(s) makes timing() return t - s and leaves the variant and
\* every other field as they were; timing() returns the timing field of the
\* variant the event is.
C21_SubtractTiming ==
    /\ [][(last'.op = "subtract_timing" /\ last'.samples <= Timing(note_event)) =>
            /\ Timing(note_event') = Timing(note_event) - last'.samples
            /\ OtherFields(note_event') = OtherFields(note_event)]_vars
    /\ [](last.op = "timing" => last.ret = note_event.timing)
    /\ [](Timing(note_event) = note_event.timing)
C21_Witness ==
    /\ last.op = "subtract_timing"
    /\ last.samples = 40
    /\ note_event.variant = "MidiCC"
    /\ note_event.timing = 60


\* Every registered parameter's smoother is reset to the parameter's value.
SmoothersReset ==
    \A h \in DOMAIN param_by_hash :
        smoothers[param_by_hash[h]] =
            Some([target |-> params[param_by_hash[h]], reset |-> TRUE])

ParamUpdated ==
    /\ last'.op = "handle_event"
    /\ last'.handled
    /\ hist'.event[1].param_id # BYPASS_PARAM_HASH
    /\ hist'.event[1].param_id \in DOMAIN param_by_hash
UpdatedParam == param_by_hash[hist'.event[1].param_id]
\* The smoother of the updated parameter is re-seeded with the new value,
\* not instantly; or it is left as it was.
Reseeded == smoothers'[UpdatedParam] = Some([target |-> params'[UpdatedParam], reset |-> FALSE])
NotReseeded == smoothers'[UpdatedParam] = smoothers[UpdatedParam]

\* C23, as stated: a Set or Modulate event dispatched to a registered
\* non-bypass parameter re-seeds the parameter's smoother exactly when the
\* instance is active, i.e. between a successful activate and the following
\* deactivate; otherwise only the raw value is set.
C23_ReseedWhenActive ==
    [][ParamUpdated =>
          IF Activity.active THEN Reseeded ELSE NotReseeded]_vars

\* C23, amended: the smoother is re-seeded exactly when a buffer
\* configuration is stored, that is from the first successful activate on:
\* also after deactivate and after a later activate that failed, for
\* neither clears the stored configuration.  An active instance always has
\* one.
C23_ReseedWhenConfigStored ==
    /\ [][ParamUpdated =>
            IF IsSome(current_buffer_config) THEN Reseeded ELSE NotReseeded]_vars
    /\ [](Activity.active => IsSome(current_buffer_config))
C23_Witness ==
    /\ last.op = "handle_event"
    /\ last.handled
    /\ ~Activity.active
    /\ IsSome(current_buffer_config)
    /\ Activity.event[1].param_id = HashParamId("gain")
    /\ smoothers["gain"] = Some([target |-> params["gain"], reset |-> FALSE])


\* The steps of a call that has dispatched the first n of its num_events
\* events.
Dispatched(num_events, n) ==
    <<StepEnter(num_events)>> \o [i \in 1..n |-> StepEvent(i - 1)]

\* C24: within one process call every event of the incoming list is
\* dispatched, in index order 0..size-1, before the output view is
\* re-pointed; the view is re-pointed and the inputs are copied before the
\* plugin's processing step; and that step is taken at most once per call,
\* after all the parameter updates of the block.
C24_StepOrder ==
    /\ [](audio.pc = "events" =>
            hist = Dispatched(audio.num_events, audio.event_idx))
    /\ [](audio.pc = "plugin" =>
            hist = Dispatched(audio.num_events, audio.num_events) \o <<StepBuffers>>)
    /\ []((audio.pc = "idle" /\ hist # <<>>) =>
            \E num_events \in 0..MaxEvents :
                \/ hist = Dispatched(num_events, num_events)
                \/ hist = Dispatched(num_events, num_events) \o <<StepBuffers, StepPlugin>>)
    /\ [][(output_slices' # output_slices \/ (host_mem' # host_mem /\ audio'.pc = "plugin")) =>
            (hist' = Append(hist, StepBuffers) \/ last'.op = "activate")]_vars
    /\ [][(last'.op = "handle_event" /\ audio'.pc = "events") =>
            (output_slices' = output_slices /\ host_mem' = host_mem)]_vars
C24_Witness ==
    /\ audio.pc = "idle"
    /\ last.op = "process"
    /\ hist = Dispatched(2, 2) \o <<StepBuffers, StepPlugin>>
    /\ bypass_state


\* C25, as stated: after every successful activate, also one that follows
\* earlier process calls, the output-slice storage holds exactly the
\* configured number of output channels and each slice is empty: length 0,
\* referring to no host memory.
C25_EmptyAfterActivate ==
    (last.op = "activate" /\ last.ret) =>
        /\ Len(output_slices) = current_bus_config.num_output_channels
        /\ \A i \in 1..Len(output_slices) : output_slices[i] = EmptySlice


\* What a block does, stated from the arguments of the call, the slices and
\* the host's memory alone: the bypass state is not among these.
SkipsBlock(a) == a.audio_outputs_count = 0 \/ a.frames_count = 0
ViewOf(slices, a) ==
    [i \in 1..Len(slices) |->
        [ptr |-> IF i <= a.channel_count THEN a.base + (i - 1) ELSE a.wild,
         len |-> a.frames_count]]
ReturnOf(status) ==
    CASE status = "Error" -> CLAP_PROCESS_ERROR
      [] status = "Normal" -> CLAP_PROCESS_CONTINUE_IF_NOT_QUIET
      [] status = "Tail" -> CLAP_PROCESS_CONTINUE
      [] status = "KeepAlive" -> CLAP_PROCESS_CONTINUE

\* C26: the bypass state has no influence on processing.  Whether the
\* plugin's processing step is invoked, the output view, the copy of the
\* inputs and the status returned are determined by the arguments of the
\* call and the state other than the bypass boolean, so two instances that
\* differ in the bypass boolean only behave alike; what get_value reports
\* for the bypass hash is the bypass boolean.
C26_BypassNotWired ==
    /\ [][(audio.pc = "events" /\ audio'.pc # "events") =>
            IF SkipsBlock(hist')
            THEN /\ audio'.pc = "idle"
                 /\ ~last'.plugin_called
                 /\ last'.ret = CLAP_PROCESS_CONTINUE
                 /\ output_slices' = output_slices
                 /\ host_mem' = host_mem
            ELSE /\ audio'.pc = "plugin"
                 /\ output_slices' = ViewOf(output_slices, hist')
                 /\ host_mem' = MemAfterCopy(host_mem, hist'.audio_inputs, hist'.frames_count,
                                             hist'.channel_count, hist'.base)]_vars
    /\ [][audio.pc = "plugin" =>
            /\ audio'.pc = "idle"
            /\ last'.plugin_called
            /\ last'.ret = ReturnOf(hist'.status[1])
            /\ output_slices' = output_slices]_vars
    /\ [](last.op = "get_value" => last.out = Some(IF bypass_state THEN One ELSE 0))
C26_Witness ==
    /\ bypass_state
    /\ last.op = "process"
    /\ last.plugin_called
    /\ last.ret = CLAP_PROCESS_CONTINUE_IF_NOT_QUIET
    /\ IsSome(hist.audio_inputs)
    /\ hist.audio_inputs[1].data32[1] # hist.base


\* C27: is_main_thread answers with the host's thread check whenever the
\* host provided it at construction, and only otherwise with whether the
\* caller is the thread that constructed the instance; which of the two it
\* is, is fixed at construction.
C27_MainThreadIdentity ==
    /\ [](last.op = "do_maybe_async" =>
            (last.main <=> IF thread_check
                           THEN last.thread = HostMainThread
                           ELSE last.thread = main_thread_id))
    /\ [][thread_check' = thread_check /\ main_thread_id' = main_thread_id]_vars
C27_Witness ==
    /\ thread_check
    /\ main_thread_id # HostMainThread
    /\ last.op = "do_maybe_async"
    /\ last.thread = main_thread_id
    /\ ~last.main
    /\ last.ret


\* The lock a call waits for at its next step, if that step takes one.
AudioWants(lock) ==
    CASE lock = "output_buffer" -> audio.pc = "events" /\ audio.event_idx = audio.num_events
      [] lock = "plugin" -> audio.pc = "lock_plugin"
      [] lock = "input_events" -> audio.pc = "lock_input_events"
MainWants(lock) ==
    CASE lock = "output_buffer" -> mainc.pc = "lock_output_buffer"
      [] lock = "plugin" -> mainc.pc = "activate"
      [] lock = "input_events" -> mainc.pc = "lock_input_events"

\* C28: no interleaving of concurrent activate, process, flush and query
\* calls deadlocks: no lock is held by both threads, no state is reachable
\* in which each of the two calls holds a lock the other waits for, and
\* every call that has been entered returns.
C28_NoDeadlock ==
    /\ [](\A lock \in Locks : ~(AudioHolds(lock) /\ MainHolds(lock)))
    /\ [](~\E l1, l2 \in Locks :
              AudioWants(l1) /\ MainHolds(l1) /\ MainWants(l2) /\ AudioHolds(l2))
    /\ (audio.pc # "idle") ~> (audio.pc = "idle")
    /\ (mainc.pc # "idle") ~> (mainc.pc = "idle")
C28_Witness ==
    /\ audio.pc = "lock_plugin"
    /\ mainc.pc = "initialize"
    /\ AudioWants("plugin")
    /\ MainHolds("plugin")
    /\ AudioHolds("output_buffer")


\* C29, as stated: modulation loses no update under concurrency.  When no
\* modulation is half done, every parameter has its initial value plus all
\* the modulation dispatched to it by process and by flush; so Modulate(d1)
\* from the audio thread and Modulate(d2) from the main thread on a
\* parameter of value v leave v + (d1 + d2) / N in every interleaving.
C29_NoLostModulation ==
    (audio.pc # "modulate" /\ mainc.pc # "modulate") =>
        \A p \in ParamPtrs : params[p] = Modulated[p]


\* The indices at which the block in progress has read the host's array of
\* output channel pointers (once per slice, and once per copied channel) and
\* its array of input channel pointers (once per copied channel).
OutputIndicesRead ==
    {i - 1 : i \in 1..Len(output_slices)}
    \cup (IF IsSome(audio.block.audio_inputs) THEN {c \in 0..(CopiedChannels - 1) : TRUE}
          ELSE {})
InputIndicesRead ==
    IF IsSome(audio.block.audio_inputs) THEN {c \in 0..(CopiedChannels - 1) : TRUE} ELSE {}

\* C30, as stated: in every process call that reaches the buffer step,
\* every index at which the host's output channel-pointer array is read is
\* below the output channel count the host reported for the block, and every
\* index at which the input array is read is below the reported input
\* channel count; also when the host's output channel count differs from the
\* number of channels configured at activation.
C30_IndicesInBounds ==
    audio.pc = "plugin" =>
        /\ \A i \in OutputIndicesRead : i < audio.block.channel_count
        /\ \A i \in InputIndicesRead : i < BlockInputs.channel_count


\* value_to_text has just shown the value of the last Set on the bypass hash.
ShowsLastSet ==
    /\ last.op = "value_to_text"
    /\ IsSome(TextSeen.set)
    /\ TextSeen.shown = TextSeen.set
\* value_to_text has just shown the value that the last recognized text gave.
ShowsLastParsed ==
    /\ last.op = "value_to_text"
    /\ IsSome(TextSeen.parsed)
    /\ TextSeen.shown = Some(TextSeen.parsed[1].value)
\* The text of the value v agrees with what Set(v) did to the bypass state.
TextAgreesWithSet ==
    ShowsLastSet =>
        /\ (last.out = Some(<<"Bypassed">>)) <=> bypass_state
        /\ (last.out = Some(<<"Not Bypassed">>)) <=> ~bypass_state
\* text_to_value followed by value_to_text gives the text back.
TextRoundTrip ==
    ShowsLastParsed => last.out = Some(TextSeen.parsed[1].text)

\* C31, as stated: for every plain value v, value_to_text on the bypass hash
\* yields "Bypassed" exactly when Set(v) on the bypass hash turns bypass on
\* and "Not Bypassed" exactly when Set(v) turns it off; and text_to_value
\* followed by value_to_text returns the original text for both recognized
\* texts.
C31_TextAgreesWithUpdate == TextAgreesWithSet /\ TextRoundTrip

====
